---- MODULE Spec2Model ----
(***************************************************************************)
(* Churn-analytics core of the lapsed-member dashboard: the CSV schema     *)
(* normalizer (utils/csvParser), the member classifier and the analytics   *)
(* aggregator (utils/analytics).                                           *)
(*                                                                         *)
(* Time is counted in hours since 2025-01-01T00:00Z.  Numbers are          *)
(* integers; a quotient the code computes in floating point is kept as an  *)
(* exact fraction [num, den].                                              *)
(***************************************************************************)
EXTENDS Integers, Sequences, FiniteSets, TLC

VARIABLES
    data,      \* MemberData[] handed to calculateAnalytics / the classifier
    tz,        \* local time-zone offset of the machine, hours east of UTC
    clock,     \* wall clock read by `new Date()`, hours since the epoch
    ticks,     \* number of clock advances so far
    pc,        \* position inside calculateAnalytics
    idx,       \* index of the next element of the running filter/forEach
    acc,       \* locals of calculateAnalytics
    result,    \* snapshot returned by calculateAnalytics
    tags,      \* tags getMemberTags returned for data[idx]
    file,      \* what Papa.parse reads in the uploaded file
    csvHeaders,\* Object.keys(results.data[0]) in parseCSV
    parsed,    \* settlement of the promise parseCSV returned
    dataset,   \* Index: the `data` state, the installed record list
    isLoading, \* Index: the `isLoading` state
    filters,   \* Index: the `filters` state
    filteredData, \* Index: value of the filteredData memo
    analytics, \* Index: value of the analytics memo
    uploads,   \* Index: the calls of handleFileUpload, in the order they started
    monthKey,  \* the key getMonthYear returned last
    view       \* what the view opened last computed from the filtered records

indexVars == <<dataset, isLoading, filters, filteredData, analytics, uploads>>

vars == <<data, tz, clock, ticks, pc, idx, acc, result, tags, file, csvHeaders, parsed, indexVars, monthKey, view>>

csvVars == <<file, csvHeaders, parsed>>
analyticsVars == <<data, tz, clock, ticks, pc, idx, acc, result, tags>>

(***************************************************************************)
(* Bounds of the model                                                     *)
(***************************************************************************)
MaxRecords == 2      \* longest record collection
MaxTicks == 1        \* clock advances within one behaviour
MaxRows == 2         \* data rows of a CSV file
MaxUploads == 2      \* calls of handleFileUpload within one behaviour

(***************************************************************************)
(* Program constants                                                       *)
(***************************************************************************)
HoursPerDay == 24            \* 1000 * 60 * 60 * 24 ms, in hours
NewMemberDays == 30
LowAttendanceBelow == 40
HighCancellationAbove == 40
LongAbsenceAbove == 21
FrequentNoShowsFrom == 3
RiskFactorsNeeded == 2

\* wall clock at the start of a behaviour: 2025-03-15T12:00Z
Now0 == 73 * HoursPerDay + 12
\* one clock advance
TickHours == HoursPerDay \div 2
\* offsets of the machine's time zone (UTC-6, UTC, UTC+6)
TzOffsets == {0 - 6, 0, 6}

(***************************************************************************)
(* parseCSV                                                                *)
(***************************************************************************)
NoFile == [fields |-> <<>>, data |-> <<>>]
Pending == [state |-> "pending", value |-> <<>>]

(***************************************************************************)
(* Index: initial value of the `filters` state                             *)
(***************************************************************************)
NoFilters ==
    [status |-> {}, location |-> {}, membershipName |-> {},
     dateRange |-> [start |-> "", end |-> ""], searchQuery |-> ""]

\* no view has computed anything yet
NoView == [op |-> "none", of |-> <<>>, out |-> <<>>]

(***************************************************************************)
(* Numbers: parseFloat / parseInt and the `|| 0` default                   *)
(***************************************************************************)
NaN == [nan |-> TRUE, val |-> 0]
Num(n) == [nan |-> FALSE, val |-> n]

\* decimal integer literals the sample data uses, with their values
NumberText ==
    [s \in {"0", "1", "2", "3", "5", "10", "20", "21", "22", "30", "39", "40",
            "41", "50", "100", "-2", "-50"} |->
        CASE s = "0" -> 0     [] s = "1" -> 1     [] s = "2" -> 2
          [] s = "3" -> 3     [] s = "5" -> 5     [] s = "10" -> 10
          [] s = "20" -> 20   [] s = "21" -> 21   [] s = "22" -> 22
          [] s = "30" -> 30   [] s = "39" -> 39   [] s = "40" -> 40
          [] s = "41" -> 41   [] s = "50" -> 50   [] s = "100" -> 100
          [] s = "-2" -> 0 - 2 [] s = "-50" -> 0 - 50]

\* parseFloat(s): the number a leading numeric literal denotes, NaN otherwise
parseFloat(s) == IF s \in DOMAIN NumberText THEN Num(NumberText[s]) ELSE NaN

\* parseInt(s): on integer literals the same number, NaN otherwise
parseInt(s) == IF s \in DOMAIN NumberText THEN Num(NumberText[s]) ELSE NaN

\* x || 0 : NaN and 0 are falsy
OrZero(x) == IF x.nan \/ x.val = 0 THEN 0 ELSE x.val

\* a / b in floating point, kept exact
Frac(a, b) == [num |-> a, den |-> b]
Zero == Frac(0, 1)
FracEq(x, y) == x.num * y.den = y.num * x.den

(***************************************************************************)
(* Dates: parseDate and getMonthYear                                       *)
(***************************************************************************)
\* days before the first of each month of 2025, and the length of the year
MonthStart == <<0, 31, 59, 90, 120, 151, 181, 212, 243, 273, 304, 334, 365>>

\* what `new Date(text)` reads in each sample text once the comma is removed
\* and the text trimmed: a date-only ISO text is UTC midnight, a text with a
\* time of day is local time (kept to the hour), anything else is Invalid Date
DateText(s) ==
    CASE s = "2025-01-05" -> [form |-> "date", month |-> 1, day |-> 5, hour |-> 0]
      [] s = "2025-01-10" -> [form |-> "date", month |-> 1, day |-> 10, hour |-> 0]
      [] s = "2025-01-20" -> [form |-> "date", month |-> 1, day |-> 20, hour |-> 0]
      [] s = "2025-01-20, 10:00:00" -> [form |-> "datetime", month |-> 1, day |-> 20, hour |-> 10]
      [] s = "2025-02-01" -> [form |-> "date", month |-> 2, day |-> 1, hour |-> 0]
      [] s = "2025-02-13" -> [form |-> "date", month |-> 2, day |-> 13, hour |-> 0]
      [] s = "2025-03-10" -> [form |-> "date", month |-> 3, day |-> 10, hour |-> 0]
      [] s = "2025-04-01" -> [form |-> "date", month |-> 4, day |-> 1, hour |-> 0]
      [] s = "2025-05-20" -> [form |-> "date", month |-> 5, day |-> 20, hour |-> 0]
      [] s = "2025-10-31" -> [form |-> "date", month |-> 10, day |-> 31, hour |-> 0]
      [] s = "2025-10-31, 21:50:13" -> [form |-> "datetime", month |-> 10, day |-> 31, hour |-> 21]
      [] OTHER -> [form |-> "invalid", month |-> 0, day |-> 0, hour |-> 0]

\* dateStr.trim() === "" for the sample texts
IsBlank(s) == s \in {"", " ", "   "}

NoDate == [valid |-> FALSE, time |-> 0]

parseDate(dateStr, zone) ==
    IF dateStr = "" \/ IsBlank(dateStr) THEN NoDate
    ELSE LET d == DateText(dateStr)
             midnight == (MonthStart[d.month] + d.day - 1) * HoursPerDay
         IN  CASE d.form = "date" -> [valid |-> TRUE, time |-> midnight]
               [] d.form = "datetime" -> [valid |-> TRUE, time |-> midnight + d.hour - zone]
               [] OTHER -> NoDate

\* date.toLocaleDateString("en-US", {month: "short", year: "numeric"})
MonthLabel(time, zone) ==
    LET day == (time + zone) \div HoursPerDay
    IN  IF day < 0 THEN "Dec 2024"
        ELSE IF day >= MonthStart[13] THEN "Jan 2026"
        ELSE LET m == CHOOSE k \in 1..12 : MonthStart[k] <= day /\ day < MonthStart[k + 1]
             IN  CASE m = 1 -> "Jan 2025" [] m = 2 -> "Feb 2025" [] m = 3 -> "Mar 2025"
                   [] m = 4 -> "Apr 2025" [] m = 5 -> "May 2025" [] m = 6 -> "Jun 2025"
                   [] m = 7 -> "Jul 2025" [] m = 8 -> "Aug 2025" [] m = 9 -> "Sep 2025"
                   [] m = 10 -> "Oct 2025" [] m = 11 -> "Nov 2025" [] m = 12 -> "Dec 2025"

getMonthYear(dateStr, zone) ==
    LET date == parseDate(dateStr, zone)
    IN  IF ~date.valid THEN "Unknown" ELSE MonthLabel(date.time, zone)

(***************************************************************************)
(* Member records                                                          *)
(***************************************************************************)
MemberFields == {"Status", "Primary Location", "Purchase Date", "Start Date",
                 "Churned Date", "Amount Paid", "Total Sessions Completed",
                 "Membership Freeze Count", "Days Frozen", "Attendance Rate %",
                 "Cancellation Rate %", "Days Since Last Visit", "No Shows"}

Member(status, location, purchase, start, churned, amount, sessions, freezes, daysFrozen, attendance, cancellation, sinceVisit, noShows) ==
    [f \in MemberFields |->
        CASE f = "Status" -> status
          [] f = "Primary Location" -> location
          [] f = "Purchase Date" -> purchase
          [] f = "Start Date" -> start
          [] f = "Churned Date" -> churned
          [] f = "Amount Paid" -> amount
          [] f = "Total Sessions Completed" -> sessions
          [] f = "Membership Freeze Count" -> freezes
          [] f = "Days Frozen" -> daysFrozen
          [] f = "Attendance Rate %" -> attendance
          [] f = "Cancellation Rate %" -> cancellation
          [] f = "Days Since Last Visit" -> sinceVisit
          [] f = "No Shows" -> noShows]

(***************************************************************************)
(* Member classifier                                                       *)
(***************************************************************************)
isNewMember(member, now, zone) ==
    LET purchaseDate == parseDate(member["Purchase Date"], zone)
        daysSincePurchase == (now - purchaseDate.time) \div HoursPerDay
    IN  IF ~purchaseDate.valid THEN FALSE
        ELSE daysSincePurchase <= NewMemberDays

isFrozenMember(member) ==
    LET freezeCount == OrZero(parseInt(member["Membership Freeze Count"]))
        daysFrozen == OrZero(parseInt(member["Days Frozen"]))
    IN  freezeCount > 0 \/ daysFrozen > 0

\* the classifier with `attendanceRate <= 40`
isHighRiskMember_AttendanceLe(member) ==
    IF member["Status"] # "Active" THEN FALSE
    ELSE LET attendanceRate == OrZero(parseFloat(member["Attendance Rate %"]))
             cancellationRate == OrZero(parseFloat(member["Cancellation Rate %"]))
             daysSinceLastVisit == OrZero(parseInt(member["Days Since Last Visit"]))
             noShows == OrZero(parseInt(member["No Shows"]))
             lowAttendance == attendanceRate <= LowAttendanceBelow
             highCancellation == cancellationRate > HighCancellationAbove
             longAbsence == daysSinceLastVisit > LongAbsenceAbove
             frequentNoShows == noShows >= FrequentNoShowsFrom
             riskFactors == Cardinality({k \in 1..4 :
                                <<lowAttendance, highCancellation,
                                  longAbsence, frequentNoShows>>[k]})
         IN  riskFactors >= RiskFactorsNeeded

isHighRiskMember(member) ==
    IF member["Status"] # "Active" THEN FALSE
    ELSE LET attendanceRate == OrZero(parseFloat(member["Attendance Rate %"]))
             cancellationRate == OrZero(parseFloat(member["Cancellation Rate %"]))
             daysSinceLastVisit == OrZero(parseInt(member["Days Since Last Visit"]))
             noShows == OrZero(parseInt(member["No Shows"]))
             lowAttendance == attendanceRate < LowAttendanceBelow
             highCancellation == cancellationRate > HighCancellationAbove
             longAbsence == daysSinceLastVisit > LongAbsenceAbove
             frequentNoShows == noShows >= FrequentNoShowsFrom
             riskFactors == Cardinality({k \in 1..4 :
                                <<lowAttendance, highCancellation,
                                  longAbsence, frequentNoShows>>[k]})
         IN  riskFactors >= RiskFactorsNeeded

getMemberTags(member, now, zone) ==
    LET t1 == IF isNewMember(member, now, zone) THEN <<"new">> ELSE <<>>
        t2 == IF isHighRiskMember(member) THEN Append(t1, "high-risk") ELSE t1
        t3 == IF member["Status"] = "Active" /\ ~isHighRiskMember(member)
              THEN Append(t2, "active") ELSE t2
        t4 == IF member["Status"] = "Lapsed" THEN Append(t3, "lapsed") ELSE t3
    IN  t4

(***************************************************************************)
(* calculateAnalytics                                                      *)
(***************************************************************************)
EmptyMap == [k \in {} |-> 0]

RECURSIVE SumSeq(_)
SumSeq(s) == IF s = <<>> THEN 0 ELSE SumSeq(SubSeq(s, 1, Len(s) - 1)) + s[Len(s)]

\* data.filter(pred).length for a predicate given as the set of passing indexes
Count(S) == Cardinality(S)

\* m["Primary Location"] || "Unknown"
LocationOf(m) == IF m["Primary Location"] = "" THEN "Unknown" ELSE m["Primary Location"]

NoSnapshot ==
    [totalMembers |-> 0, activeMembers |-> 0, lapsedMembers |-> 0, newMembers |-> 0,
     highRiskMembers |-> 0, frozenMembers |-> 0, churnRate |-> Zero,
     totalRevenue |-> 0, totalSessions |-> 0,
     avgSessionsPerMember |-> Zero, avgRevenuePerSession |-> Zero,
     locationBreakdown |-> EmptyMap, monthlyChurn |-> EmptyMap,
     locationMonthlyData |-> EmptyMap]

Breakdown0 == [active |-> 0, lapsed |-> 0, new |-> 0, frozen |-> 0]
Cell0 == [new |-> 0, active |-> 0, lapsed |-> 0, frozen |-> 0, churnRate |-> Zero, revenue |-> 0]

\* the breakdown with `else` in place of `else if (m.Status === "Lapsed")`
LocationBody_ElseLapsed(breakdown, m, now, zone) ==
    LET location == LocationOf(m)
        b0 == IF location \in DOMAIN breakdown THEN breakdown
              ELSE breakdown @@ (location :> Breakdown0)
        e0 == b0[location]
        e1 == IF m["Status"] = "Active" THEN [e0 EXCEPT !.active = @ + 1]
              ELSE [e0 EXCEPT !.lapsed = @ + 1]
        e2 == IF isNewMember(m, now, zone) THEN [e1 EXCEPT !.new = @ + 1] ELSE e1
        e3 == IF isFrozenMember(m) THEN [e2 EXCEPT !.frozen = @ + 1] ELSE e2
    IN  [b0 EXCEPT ![location] = e3]

\* body of the forEach that fills locationBreakdown
LocationBody(breakdown, m, now, zone) ==
    LET location == LocationOf(m)
        b0 == IF location \in DOMAIN breakdown THEN breakdown
              ELSE breakdown @@ (location :> Breakdown0)
        e0 == b0[location]
        e1 == IF m["Status"] = "Active" THEN [e0 EXCEPT !.active = @ + 1]
              ELSE IF m["Status"] = "Lapsed" THEN [e0 EXCEPT !.lapsed = @ + 1]
              ELSE e0
        e2 == IF isNewMember(m, now, zone) THEN [e1 EXCEPT !.new = @ + 1] ELSE e1
        e3 == IF isFrozenMember(m) THEN [e2 EXCEPT !.frozen = @ + 1] ELSE e2
    IN  [b0 EXCEPT ![location] = e3]

\* the monthly churn filter and forEach, over the first n records
RECURSIVE MonthlyChurnPass(_, _, _)
MonthlyChurnPass(records, n, zone) ==
    IF n = 0 THEN EmptyMap
    ELSE LET before == MonthlyChurnPass(records, n - 1, zone)
             m == records[n]
             monthYear == getMonthYear(m["Churned Date"], zone)
         IN  IF m["Status"] = "Lapsed" /\ m["Churned Date"] # ""
             THEN IF monthYear \in DOMAIN before
                  THEN [before EXCEPT ![monthYear] = @ + 1]
                  ELSE before @@ (monthYear :> 1)
             ELSE before

\* `if (!map[key]) map[key] = init` on a map whose values are all truthy
WithKey(map, key, init) == IF key \in DOMAIN map THEN map ELSE map @@ (key :> init)

\* the start-month branch that adds the revenue whatever the status
StartMonthPart_RevenueAlways(months, m, startMonth, isNew, revenue, frozen) ==
    IF m["Start Date"] # ""
    THEN [WithKey(months, startMonth, Cell0) EXCEPT ![startMonth] =
             [@ EXCEPT !.new = IF isNew THEN @ + 1 ELSE @,
                       !.active = IF m["Status"] = "Active" THEN @ + 1 ELSE @,
                       !.revenue = @ + revenue,
                       !.frozen = @ + frozen]]
    ELSE months

\* the start-month branch of the forEach, on the months of one location
StartMonthPart(months, m, startMonth, isNew, revenue, frozen) ==
    IF m["Start Date"] # ""
    THEN [WithKey(months, startMonth, Cell0) EXCEPT ![startMonth] =
             [@ EXCEPT !.new = IF isNew THEN @ + 1 ELSE @,
                       !.active = IF m["Status"] = "Active" THEN @ + 1 ELSE @,
                       !.revenue = IF m["Status"] = "Active" THEN @ + revenue ELSE @,
                       !.frozen = @ + frozen]]
    ELSE months

\* the churn-month branch of the forEach, on the months of one location
ChurnMonthPart(months, m, churnMonth, revenue) ==
    IF m["Status"] = "Lapsed" /\ m["Churned Date"] # ""
    THEN [WithKey(months, churnMonth, Cell0) EXCEPT ![churnMonth] =
             [@ EXCEPT !.lapsed = @ + 1, !.revenue = @ + revenue]]
    ELSE months

\* both branches applied to the months of the record's location
MatrixPut(matrix, location, m, startMonth, churnMonth, isNew, revenue, frozen) ==
    [WithKey(matrix, location, EmptyMap) EXCEPT ![location] =
        ChurnMonthPart(StartMonthPart(@, m, startMonth, isNew, revenue, frozen),
                       m, churnMonth, revenue)]

\* body of the forEach that fills locationMonthlyData
MatrixBody(matrix, m, now, zone) ==
    MatrixPut(matrix, LocationOf(m), m,
              getMonthYear(m["Start Date"], zone), getMonthYear(m["Churned Date"], zone),
              isNewMember(m, now, zone), OrZero(parseFloat(m["Amount Paid"])),
              IF isFrozenMember(m) THEN 1 ELSE 0)

\* the churn rate taken against the active members only
CellChurnRate_ActiveOnly(monthData) ==
    IF monthData.active > 0
    THEN Frac(monthData.lapsed * 100, monthData.active) ELSE Zero

\* monthData.churnRate of one cell
CellChurnRate(monthData) ==
    LET total == monthData.active + monthData.lapsed
    IN  IF total > 0 THEN Frac(monthData.lapsed * 100, total) ELSE Zero

\* the final pass over every location and month
ChurnRatePass(matrix) ==
    [location \in DOMAIN matrix |->
        [month \in DOMAIN matrix[location] |->
            [matrix[location][month] EXCEPT
                !.churnRate = CellChurnRate(matrix[location][month])]]]

\* the object calculateAnalytics returns
Returned(a) ==
    [totalMembers |-> a.totalMembers, activeMembers |-> a.activeMembers,
     lapsedMembers |-> a.lapsedMembers, newMembers |-> a.newMembers,
     highRiskMembers |-> a.highRiskMembers, frozenMembers |-> a.frozenMembers,
     churnRate |-> a.churnRate, totalRevenue |-> a.totalRevenue,
     avgSessionsPerMember |-> a.avgSessionsPerMember,
     avgRevenuePerSession |-> a.avgRevenuePerSession,
     locationBreakdown |-> a.locationBreakdown, monthlyChurn |-> a.monthlyChurn,
     locationMonthlyData |-> a.locationMonthlyData]

\* the quotients with the churn rate left as a ratio, not a percentage
ScalarRates_NoPercent(totalMembers, lapsedMembers, totalRevenue, totalSessions) ==
    [churnRate |-> IF totalMembers > 0
                   THEN Frac(lapsedMembers, totalMembers) ELSE Zero,
     avgSessionsPerMember |-> IF totalMembers > 0
                   THEN Frac(totalSessions, totalMembers) ELSE Zero,
     avgRevenuePerSession |-> IF totalSessions > 0
                   THEN Frac(totalRevenue, totalSessions) ELSE Zero]

\* lines 60, 72, 73: the three guarded quotients
ScalarRates(totalMembers, lapsedMembers, totalRevenue, totalSessions) ==
    [churnRate |-> IF totalMembers > 0
                   THEN Frac(lapsedMembers * 100, totalMembers) ELSE Zero,
     avgSessionsPerMember |-> IF totalMembers > 0
                   THEN Frac(totalSessions, totalMembers) ELSE Zero,
     avgRevenuePerSession |-> IF totalSessions > 0
                   THEN Frac(totalRevenue, totalSessions) ELSE Zero]

\* the matrix calculateAnalytics builds from a record collection at one time
RECURSIVE MatrixPass(_, _, _, _)
MatrixPass(records, n, now, zone) ==
    IF n = 0 THEN EmptyMap
    ELSE MatrixBody(MatrixPass(records, n - 1, now, zone), records[n], now, zone)

\* the location breakdown built from the first n records at one time
RECURSIVE LocationPass(_, _, _, _)
LocationPass(records, n, now, zone) ==
    IF n = 0 THEN EmptyMap
    ELSE LocationBody(LocationPass(records, n - 1, now, zone), records[n], now, zone)

\* one whole call of calculateAnalytics with every clock read at one time
calculateAnalytics(records, now, zone) ==
    LET n == Len(records)
        lapsedMembers == Count({k \in 1..n : records[k]["Status"] = "Lapsed"})
        totalRevenue == SumSeq([k \in 1..n |->
                            OrZero(parseFloat(records[k]["Amount Paid"]))])
        totalSessions == SumSeq([k \in 1..n |->
                            OrZero(parseFloat(records[k]["Total Sessions Completed"]))])
        rates == ScalarRates(n, lapsedMembers, totalRevenue, totalSessions)
    IN  [totalMembers |-> n,
         activeMembers |-> Count({k \in 1..n : records[k]["Status"] = "Active"}),
         lapsedMembers |-> lapsedMembers,
         newMembers |-> Count({k \in 1..n : isNewMember(records[k], now, zone)}),
         highRiskMembers |-> Count({k \in 1..n : isHighRiskMember(records[k])}),
         frozenMembers |-> Count({k \in 1..n : isFrozenMember(records[k])}),
         churnRate |-> rates.churnRate,
         totalRevenue |-> totalRevenue,
         avgSessionsPerMember |-> rates.avgSessionsPerMember,
         avgRevenuePerSession |-> rates.avgRevenuePerSession,
         locationBreakdown |-> LocationPass(records, n, now, zone),
         monthlyChurn |-> MonthlyChurnPass(records, n, zone),
         locationMonthlyData |-> ChurnRatePass(MatrixPass(records, n, now, zone))]

\* lines 54-56: the three counts that read only Status
Call ==
    /\ pc = "idle"
    /\ acc' = [NoSnapshot EXCEPT
                  !.totalMembers = Len(data),
                  !.activeMembers = Count({k \in 1..Len(data) : data[k]["Status"] = "Active"}),
                  !.lapsedMembers = Count({k \in 1..Len(data) : data[k]["Status"] = "Lapsed"})]
    /\ pc' = "new"
    /\ idx' = 1
    /\ UNCHANGED <<data, tz, clock, ticks, result, tags, csvVars, indexVars, monthKey, view>>

\* line 57: one callback of data.filter((m) => isNewMember(m))
NewStep ==
    /\ pc = "new"
    /\ idx <= Len(data)
    /\ acc' = [acc EXCEPT !.newMembers =
                  IF isNewMember(data[idx], clock, tz) THEN @ + 1 ELSE @]
    /\ idx' = idx + 1
    /\ UNCHANGED <<data, tz, clock, ticks, pc, result, tags, csvVars, indexVars, monthKey, view>>

\* lines 58-73: the remaining scalars
Scalars ==
    /\ pc = "new"
    /\ idx > Len(data)
    /\ LET totalRevenue == SumSeq([k \in 1..Len(data) |->
                               OrZero(parseFloat(data[k]["Amount Paid"]))])
           totalSessions == SumSeq([k \in 1..Len(data) |->
                               OrZero(parseFloat(data[k]["Total Sessions Completed"]))])
           rates == ScalarRates(acc.totalMembers, acc.lapsedMembers,
                                totalRevenue, totalSessions)
       IN  acc' = [acc EXCEPT
                  !.highRiskMembers = Count({k \in 1..Len(data) : isHighRiskMember(data[k])}),
                  !.frozenMembers = Count({k \in 1..Len(data) : isFrozenMember(data[k])}),
                  !.churnRate = rates.churnRate,
                  !.totalRevenue = totalRevenue,
                  !.totalSessions = totalSessions,
                  !.avgSessionsPerMember = rates.avgSessionsPerMember,
                  !.avgRevenuePerSession = rates.avgRevenuePerSession]
    /\ pc' = "location"
    /\ idx' = 1
    /\ UNCHANGED <<data, tz, clock, ticks, result, tags, csvVars, indexVars, monthKey, view>>

\* lines 77-93: one callback of the location breakdown forEach
LocationStep ==
    /\ pc = "location"
    /\ idx <= Len(data)
    /\ acc' = [acc EXCEPT !.locationBreakdown = LocationBody(@, data[idx], clock, tz)]
    /\ idx' = idx + 1
    /\ UNCHANGED <<data, tz, clock, ticks, pc, result, tags, csvVars, indexVars, monthKey, view>>

\* lines 95-102: monthly churn
MonthlyChurn ==
    /\ pc = "location"
    /\ idx > Len(data)
    /\ acc' = [acc EXCEPT !.monthlyChurn = MonthlyChurnPass(data, Len(data), tz)]
    /\ pc' = "matrix"
    /\ idx' = 1
    /\ UNCHANGED <<data, tz, clock, ticks, result, tags, csvVars, indexVars, monthKey, view>>

\* lines 107-143: one callback of the location/month forEach
MatrixStep ==
    /\ pc = "matrix"
    /\ idx <= Len(data)
    /\ acc' = [acc EXCEPT !.locationMonthlyData = MatrixBody(@, data[idx], clock, tz)]
    /\ idx' = idx + 1
    /\ UNCHANGED <<data, tz, clock, ticks, pc, result, tags, csvVars, indexVars, monthKey, view>>

\* lines 145-168: churn rate of every cell, then the return
ChurnRates ==
    /\ pc = "matrix"
    /\ idx > Len(data)
    /\ acc' = [acc EXCEPT !.locationMonthlyData = ChurnRatePass(@)]
    /\ result' = Append(result, Returned(acc'))
    /\ pc' = "done"
    /\ UNCHANGED <<data, tz, clock, ticks, idx, tags, csvVars, indexVars, monthKey, view>>

\* getMemberTags(data[k]) for one record of the collection
Classify ==
    /\ pc = "idle"
    /\ \E k \in 1..Len(data) :
        /\ tags' = getMemberTags(data[k], clock, tz)
        /\ idx' = k
    /\ pc' = "tagged"
    /\ UNCHANGED <<data, tz, clock, ticks, acc, result, csvVars, indexVars, monthKey, view>>

\* the wall clock advances
Tick ==
    /\ ticks < MaxTicks
    /\ clock' = clock + TickHours
    /\ ticks' = ticks + 1
    /\ UNCHANGED <<data, tz, pc, idx, acc, result, tags, csvVars, indexVars, monthKey, view>>

(***************************************************************************)
(* Schema normalizer: COLUMN_MAPPINGS, findMatchingColumn, normalizeRow,   *)
(* parseCSV                                                                *)
(***************************************************************************)
\* Object.keys(COLUMN_MAPPINGS), in the order of the table
expectedColumns ==
    <<"Member Name", "Member ID", "Host ID", "Status", "Membership Name",
      "Sessions Limit", "Purchase Date", "Start Date", "End Date",
      "Churned Date", "Amount Paid", "Discount Code", "Discount Value",
      "Original Amount (Before Discount)", "Sold By",
      "Most Recent Visit Date", "First Visit Date",
      "Total Sessions Completed", "Sessions Used %", "Remaining Sessions",
      "Total Cancellations", "Late Cancellations", "No Shows",
      "Cancellation Rate %", "Preferred Booking Method", "Primary Location",
      "Locations Attended", "Membership Freeze Count", "Days Frozen",
      "Membership Duration (Days)", "Days Active", "Days Since Last Visit",
      "Average Sessions Per Month", "Revenue Per Session",
      "Attendance Rate %", "Created By">>

\* the aliases of every canonical field
COLUMN_MAPPINGS ==
       ("Member Name" :> <<"Member Name", "Name", "Member", "Full Name", "Customer Name", "Client Name">>)
    @@ ("Member ID" :> <<"Member ID", "ID", "MemberID", "Customer ID", "Client ID">>)
    @@ ("Host ID" :> <<"Host ID", "HostID", "Host">>)
    @@ ("Status" :> <<"Status", "Member Status", "Account Status", "Membership Status">>)
    @@ ("Membership Name" :> <<"Membership Name", "Membership", "Plan", "Plan Name", "Subscription", "Package">>)
    @@ ("Sessions Limit" :> <<"Sessions Limit", "Session Limit", "Max Sessions", "Total Sessions">>)
    @@ ("Purchase Date" :> <<"Purchase Date", "Purchased", "Date Purchased", "Buy Date", "Order Date">>)
    @@ ("Start Date" :> <<"Start Date", "Started", "Begin Date", "Activation Date">>)
    @@ ("End Date" :> <<"End Date", "Ended", "Expiry Date", "Expiration Date", "Expire Date">>)
    @@ ("Churned Date" :> <<"Churned Date", "Churn Date", "Cancelled Date", "Cancellation Date", "Lapsed Date">>)
    @@ ("Amount Paid" :> <<"Amount Paid", "Amount", "Total Amount", "Payment", "Price", "Revenue", "Total Paid">>)
    @@ ("Discount Code" :> <<"Discount Code", "Promo Code", "Coupon", "Voucher">>)
    @@ ("Discount Value" :> <<"Discount Value", "Discount", "Discount Amount">>)
    @@ ("Original Amount (Before Discount)" :> <<"Original Amount (Before Discount)", "Original Amount", "Base Price">>)
    @@ ("Sold By" :> <<"Sold By", "Salesperson", "Agent", "Rep">>)
    @@ ("Most Recent Visit Date" :> <<"Most Recent Visit Date", "Last Visit", "Last Visit Date", "Recent Visit">>)
    @@ ("First Visit Date" :> <<"First Visit Date", "First Visit", "Initial Visit">>)
    @@ ("Total Sessions Completed" :> <<"Total Sessions Completed", "Sessions Completed", "Completed Sessions", "Sessions Used">>)
    @@ ("Sessions Used %" :> <<"Sessions Used %", "Session Usage", "Usage %", "Sessions Used Percentage">>)
    @@ ("Remaining Sessions" :> <<"Remaining Sessions", "Sessions Remaining", "Sessions Left">>)
    @@ ("Total Cancellations" :> <<"Total Cancellations", "Cancellations", "Cancelled Sessions">>)
    @@ ("Late Cancellations" :> <<"Late Cancellations", "Late Cancels", "Late Cancel Count">>)
    @@ ("No Shows" :> <<"No Shows", "NoShows", "No Show Count", "Missed Sessions">>)
    @@ ("Cancellation Rate %" :> <<"Cancellation Rate %", "Cancellation Rate", "Cancel Rate", "Cancellation %">>)
    @@ ("Preferred Booking Method" :> <<"Preferred Booking Method", "Booking Method", "Booking Preference">>)
    @@ ("Primary Location" :> <<"Primary Location", "Location", "Studio", "Branch", "Gym", "Center", "Centre">>)
    @@ ("Locations Attended" :> <<"Locations Attended", "Visited Locations", "Studios Visited">>)
    @@ ("Membership Freeze Count" :> <<"Membership Freeze Count", "Freeze Count", "Freezes", "Pauses">>)
    @@ ("Days Frozen" :> <<"Days Frozen", "Frozen Days", "Freeze Days">>)
    @@ ("Membership Duration (Days)" :> <<"Membership Duration (Days)", "Duration", "Duration Days", "Tenure">>)
    @@ ("Days Active" :> <<"Days Active", "Active Days", "Days Since Start">>)
    @@ ("Days Since Last Visit" :> <<"Days Since Last Visit", "Days Inactive", "Inactivity Days", "Last Visit Days Ago">>)
    @@ ("Average Sessions Per Month" :> <<"Average Sessions Per Month", "Avg Sessions", "Monthly Sessions", "Sessions/Month">>)
    @@ ("Revenue Per Session" :> <<"Revenue Per Session", "Rev/Session", "Session Value">>)
    @@ ("Attendance Rate %" :> <<"Attendance Rate %", "Attendance Rate", "Attendance %", "Attendance">>)
    @@ ("Created By" :> <<"Created By", "Creator", "Added By">>)

\* String.prototype.toLowerCase on the aliases and on the trimmed sample headers
LowerCaseTable ==
       ("Account Status" :> "account status")
    @@ ("Activation Date" :> "activation date")
    @@ ("Active Days" :> "active days")
    @@ ("Added By" :> "added by")
    @@ ("Agent" :> "agent")
    @@ ("Amount" :> "amount")
    @@ ("Amount Paid" :> "amount paid")
    @@ ("Attendance" :> "attendance")
    @@ ("Attendance %" :> "attendance %")
    @@ ("Attendance Rate" :> "attendance rate")
    @@ ("Attendance Rate %" :> "attendance rate %")
    @@ ("Average Sessions Per Month" :> "average sessions per month")
    @@ ("Avg Sessions" :> "avg sessions")
    @@ ("Base Price" :> "base price")
    @@ ("Begin Date" :> "begin date")
    @@ ("Booking Method" :> "booking method")
    @@ ("Booking Preference" :> "booking preference")
    @@ ("Branch" :> "branch")
    @@ ("Buy Date" :> "buy date")
    @@ ("Cancel Rate" :> "cancel rate")
    @@ ("Cancellation %" :> "cancellation %")
    @@ ("Cancellation Date" :> "cancellation date")
    @@ ("Cancellation Rate" :> "cancellation rate")
    @@ ("Cancellation Rate %" :> "cancellation rate %")
    @@ ("Cancellations" :> "cancellations")
    @@ ("Cancelled Date" :> "cancelled date")
    @@ ("Cancelled Sessions" :> "cancelled sessions")
    @@ ("Center" :> "center")
    @@ ("Centre" :> "centre")
    @@ ("Churn Date" :> "churn date")
    @@ ("Churned Date" :> "churned date")
    @@ ("Client ID" :> "client id")
    @@ ("Client Name" :> "client name")
    @@ ("Completed Sessions" :> "completed sessions")
    @@ ("Coupon" :> "coupon")
    @@ ("Created By" :> "created by")
    @@ ("Creator" :> "creator")
    @@ ("Customer ID" :> "customer id")
    @@ ("Customer Name" :> "customer name")
    @@ ("Date Purchased" :> "date purchased")
    @@ ("Days Active" :> "days active")
    @@ ("Days Frozen" :> "days frozen")
    @@ ("Days Inactive" :> "days inactive")
    @@ ("Days Since Last Visit" :> "days since last visit")
    @@ ("Days Since Start" :> "days since start")
    @@ ("Discount" :> "discount")
    @@ ("Discount Amount" :> "discount amount")
    @@ ("Discount Code" :> "discount code")
    @@ ("Discount Value" :> "discount value")
    @@ ("Duration" :> "duration")
    @@ ("Duration Days" :> "duration days")
    @@ ("End Date" :> "end date")
    @@ ("Ended" :> "ended")
    @@ ("Expiration Date" :> "expiration date")
    @@ ("Expire Date" :> "expire date")
    @@ ("Expiry Date" :> "expiry date")
    @@ ("First Visit" :> "first visit")
    @@ ("First Visit Date" :> "first visit date")
    @@ ("Freeze Count" :> "freeze count")
    @@ ("Freeze Days" :> "freeze days")
    @@ ("Freezes" :> "freezes")
    @@ ("Frozen Days" :> "frozen days")
    @@ ("Full Name" :> "full name")
    @@ ("Gym" :> "gym")
    @@ ("Host" :> "host")
    @@ ("Host ID" :> "host id")
    @@ ("HostID" :> "hostid")
    @@ ("ID" :> "id")
    @@ ("Inactivity Days" :> "inactivity days")
    @@ ("Initial Visit" :> "initial visit")
    @@ ("Lapsed Date" :> "lapsed date")
    @@ ("Last Visit" :> "last visit")
    @@ ("Last Visit Date" :> "last visit date")
    @@ ("Last Visit Days Ago" :> "last visit days ago")
    @@ ("Late Cancel Count" :> "late cancel count")
    @@ ("Late Cancellations" :> "late cancellations")
    @@ ("Late Cancels" :> "late cancels")
    @@ ("Location" :> "location")
    @@ ("Locations Attended" :> "locations attended")
    @@ ("Max Sessions" :> "max sessions")
    @@ ("Member" :> "member")
    @@ ("Member ID" :> "member id")
    @@ ("Member Name" :> "member name")
    @@ ("Member Status" :> "member status")
    @@ ("MemberID" :> "memberid")
    @@ ("Membership" :> "membership")
    @@ ("Membership Duration (Days)" :> "membership duration (days)")
    @@ ("Membership Freeze Count" :> "membership freeze count")
    @@ ("Membership Name" :> "membership name")
    @@ ("Membership Status" :> "membership status")
    @@ ("Missed Sessions" :> "missed sessions")
    @@ ("Monthly Sessions" :> "monthly sessions")
    @@ ("Most Recent Visit Date" :> "most recent visit date")
    @@ ("Name" :> "name")
    @@ ("No Show Count" :> "no show count")
    @@ ("No Shows" :> "no shows")
    @@ ("NoShows" :> "noshows")
    @@ ("Order Date" :> "order date")
    @@ ("Original Amount" :> "original amount")
    @@ ("Original Amount (Before Discount)" :> "original amount (before discount)")
    @@ ("Package" :> "package")
    @@ ("Pauses" :> "pauses")
    @@ ("Payment" :> "payment")
    @@ ("Plan" :> "plan")
    @@ ("Plan Name" :> "plan name")
    @@ ("Preferred Booking Method" :> "preferred booking method")
    @@ ("Price" :> "price")
    @@ ("Primary Location" :> "primary location")
    @@ ("Promo Code" :> "promo code")
    @@ ("Purchase Date" :> "purchase date")
    @@ ("Purchased" :> "purchased")
    @@ ("Recent Visit" :> "recent visit")
    @@ ("Remaining Sessions" :> "remaining sessions")
    @@ ("Rep" :> "rep")
    @@ ("Rev/Session" :> "rev/session")
    @@ ("Revenue" :> "revenue")
    @@ ("Revenue Per Session" :> "revenue per session")
    @@ ("Salesperson" :> "salesperson")
    @@ ("Session Limit" :> "session limit")
    @@ ("Session Usage" :> "session usage")
    @@ ("Session Value" :> "session value")
    @@ ("Sessions Completed" :> "sessions completed")
    @@ ("Sessions Left" :> "sessions left")
    @@ ("Sessions Limit" :> "sessions limit")
    @@ ("Sessions Remaining" :> "sessions remaining")
    @@ ("Sessions Used" :> "sessions used")
    @@ ("Sessions Used %" :> "sessions used %")
    @@ ("Sessions Used Percentage" :> "sessions used percentage")
    @@ ("Sessions/Month" :> "sessions/month")
    @@ ("Shoe Size" :> "shoe size")
    @@ ("Sold By" :> "sold by")
    @@ ("Start Date" :> "start date")
    @@ ("Started" :> "started")
    @@ ("Status" :> "status")
    @@ ("Studio" :> "studio")
    @@ ("Studios Visited" :> "studios visited")
    @@ ("Subscription" :> "subscription")
    @@ ("Tenure" :> "tenure")
    @@ ("Total Amount" :> "total amount")
    @@ ("Total Cancellations" :> "total cancellations")
    @@ ("Total Paid" :> "total paid")
    @@ ("Total Sessions" :> "total sessions")
    @@ ("Total Sessions Completed" :> "total sessions completed")
    @@ ("Usage %" :> "usage %")
    @@ ("Visited Locations" :> "visited locations")
    @@ ("Voucher" :> "voucher")
    @@ ("status" :> "status")

\* String.prototype.trim on the sample headers
TrimTable ==
       ("Status" :> "Status")
    @@ (" status " :> "status")
    @@ ("Name" :> "Name")
    @@ ("Member Name" :> "Member Name")
    @@ ("Location" :> "Location")
    @@ ("Shoe Size" :> "Shoe Size")
    @@ ("Purchased" :> "Purchased")

\* String.prototype.toLowerCase on the sample values and search queries
ValueLowerCase ==
       ("" :> "")
    @@ ("Ann" :> "ann") @@ ("Bob" :> "bob")
    @@ ("m1" :> "m1") @@ ("m2" :> "m2")
    @@ ("Park" :> "park") @@ ("Mall" :> "mall")
    @@ ("Gold" :> "gold") @@ ("Solo" :> "solo")
    @@ ("AN" :> "an") @@ ("gol" :> "gol") @@ ("act" :> "act") @@ ("par" :> "par")
    @@ ("Active" :> "active") @@ ("Lapsed" :> "lapsed") @@ ("Churned" :> "churned")

trim(s) == TrimTable[s]
toLowerCase(s) ==
    IF s \in DOMAIN LowerCaseTable THEN LowerCaseTable[s] ELSE ValueLowerCase[s]

SeqRange(s) == {s[k] : k \in 1..Len(s)}

NoColumn == [found |-> FALSE, header |-> ""]

\* the first header, in header order, that equals some alias of the target
findMatchingColumn(headers, targetColumn) ==
    LET possibleNames == IF targetColumn \in DOMAIN COLUMN_MAPPINGS
                         THEN COLUMN_MAPPINGS[targetColumn] ELSE <<targetColumn>>
        hits == {k \in 1..Len(headers) :
                    \E a \in 1..Len(possibleNames) :
                        toLowerCase(trim(headers[k])) = toLowerCase(possibleNames[a])}
    IN  IF hits = {} THEN NoColumn
        ELSE [found |-> TRUE,
              header |-> headers[CHOOSE k \in hits : \A j \in hits : k <= j]]

\* the normalized record without the loop that copies the extra columns
normalizeRow_NoExtras(row, headers) ==
    [c \in SeqRange(expectedColumns) |->
        LET actualColumn == findMatchingColumn(headers, c)
        IN  IF actualColumn.found /\ actualColumn.header \in DOMAIN row
            THEN row[actualColumn.header] ELSE ""]

\* the normalized record that leaves out a canonical field with no value
normalizeRow_NoDefault(row, headers) ==
    LET bound == {c \in SeqRange(expectedColumns) :
                     /\ findMatchingColumn(headers, c).found
                     /\ findMatchingColumn(headers, c).header \in DOMAIN row}
        extras == {key \in DOMAIN row :
                      ~\E col \in SeqRange(expectedColumns) :
                          /\ findMatchingColumn(<<key>>, col).found
                          /\ findMatchingColumn(<<key>>, col).header = key}
    IN  [k \in bound \cup extras |->
            IF k \in extras THEN row[k]
            ELSE row[findMatchingColumn(headers, k).header]]

normalizeRow(row, headers) ==
    LET canonical ==
            [c \in SeqRange(expectedColumns) |->
                LET actualColumn == findMatchingColumn(headers, c)
                IN  IF actualColumn.found /\ actualColumn.header # ""
                    THEN IF actualColumn.header \in DOMAIN row
                         THEN row[actualColumn.header] ELSE ""
                    ELSE ""]
        extras == {key \in DOMAIN row :
                      ~\E col \in SeqRange(expectedColumns) :
                          /\ findMatchingColumn(<<key>>, col).found
                          /\ findMatchingColumn(<<key>>, col).header = key}
    IN  [k \in SeqRange(expectedColumns) \cup extras |->
            IF k \in extras THEN row[k] ELSE canonical[k]]

\* Object.keys(row): the row's keys in the order of the header row
KeysOf(row, fields) == SelectSeq(fields, LAMBDA h : h \in DOMAIN row)

\* the `complete` callback of Papa.parse
PapaComplete ==
    /\ parsed.state = "pending"
    /\ file # NoFile
    /\ IF Len(file.data) = 0
       THEN /\ parsed' = [state |-> "resolved", value |-> <<>>]
            /\ UNCHANGED csvHeaders
       ELSE /\ csvHeaders' = KeysOf(file.data[1], file.fields)
            /\ parsed' = [state |-> "resolved",
                          value |-> [k \in 1..Len(file.data) |->
                                        normalizeRow(file.data[k], csvHeaders')]]
    /\ UNCHANGED <<file, analyticsVars, indexVars, monthKey, view>>

\* the `error` callback of Papa.parse
PapaError ==
    /\ parsed.state = "pending"
    /\ file # NoFile
    /\ parsed' = [state |-> "rejected", value |-> <<>>]
    /\ UNCHANGED <<file, csvHeaders, analyticsVars, indexVars, monthKey, view>>

(***************************************************************************)
(* Index: the filter criteria, filterByDateRange and the filteredData memo *)
(***************************************************************************)
\* the characters of the lower-cased sample texts
Chars ==
       ("" :> <<>>)
    @@ ("ann" :> <<"a", "n", "n">>) @@ ("bob" :> <<"b", "o", "b">>)
    @@ ("m1" :> <<"m", "1">>) @@ ("m2" :> <<"m", "2">>)
    @@ ("park" :> <<"p", "a", "r", "k">>) @@ ("mall" :> <<"m", "a", "l", "l">>)
    @@ ("gold" :> <<"g", "o", "l", "d">>) @@ ("solo" :> <<"s", "o", "l", "o">>)
    @@ ("an" :> <<"a", "n">>) @@ ("gol" :> <<"g", "o", "l">>) @@ ("act" :> <<"a", "c", "t">>)
    @@ ("par" :> <<"p", "a", "r">>)

\* String.prototype.includes
includes(text, search) ==
    LET t == Chars[text]
        q == Chars[search]
    IN  \E i \in 0..(Len(t) - Len(q)) : SubSeq(t, i + 1, i + Len(q)) = q

\* new Date(text) for the yyyy-MM-dd texts the date picker writes
NewDate(text, zone) ==
    LET d == DateText(text)
        midnight == (MonthStart[d.month] + d.day - 1) * HoursPerDay
    IN  CASE d.form = "date" -> [valid |-> TRUE, time |-> midnight]
          [] d.form = "datetime" -> [valid |-> TRUE, time |-> midnight + d.hour - zone]
          [] OTHER -> NoDate

\* the date filter that drops the records without a parseable purchase date
filterByDateRange_DropUndated(records, startDate, endDate, zone) ==
    IF startDate = "" /\ endDate = "" THEN records
    ELSE LET start == NewDate(startDate, zone)
             end == NewDate(endDate, zone)
             keep(m) ==
                 LET purchaseDate == parseDate(m["Purchase Date"], zone)
                 IN  /\ purchaseDate.valid
                     /\ ~(startDate # "" /\ start.valid /\ purchaseDate.time < start.time)
                     /\ ~(endDate # "" /\ end.valid /\ purchaseDate.time > end.time)
         IN  SelectSeq(records, keep)

filterByDateRange(records, startDate, endDate, zone) ==
    IF startDate = "" /\ endDate = "" THEN records
    ELSE LET start == NewDate(startDate, zone)
             end == NewDate(endDate, zone)
             keep(m) ==
                 LET purchaseDate == parseDate(m["Purchase Date"], zone)
                 IN  IF ~purchaseDate.valid THEN TRUE
                     ELSE IF startDate # "" /\ start.valid /\ purchaseDate.time < start.time
                     THEN FALSE
                     ELSE IF endDate # "" /\ end.valid /\ purchaseDate.time > end.time
                     THEN FALSE
                     ELSE TRUE
         IN  SelectSeq(records, keep)

\* the search over the member name only
MatchesSearch_NameOnly(item, searchQuery) ==
    LET search == toLowerCase(searchQuery)
    IN  includes(toLowerCase(item["Member Name"]), search)

\* lines 70-74: some searchable field holds the lower-cased query
MatchesSearch(item, searchQuery) ==
    LET search == toLowerCase(searchQuery)
        searchableFields == <<item["Member Name"], item["Member ID"],
                              item["Primary Location"], item["Membership Name"]>>
    IN  \E j \in 1..Len(searchableFields) :
            includes(toLowerCase(searchableFields[j]), search)

\* the filter that keeps a record as soon as one selected dimension accepts it
FilteredData_AnyDimension(records, criteria, zone) ==
    LET ranged == IF criteria.dateRange.start # "" \/ criteria.dateRange.end # ""
                  THEN filterByDateRange(records, criteria.dateRange.start,
                                         criteria.dateRange.end, zone)
                  ELSE records
        keep(item) ==
            \/ criteria.status = {} /\ criteria.location = {}
                  /\ criteria.membershipName = {} /\ criteria.searchQuery = ""
            \/ item["Status"] \in criteria.status
            \/ item["Primary Location"] \in criteria.location
            \/ item["Membership Name"] \in criteria.membershipName
            \/ criteria.searchQuery # "" /\ MatchesSearch(item, criteria.searchQuery)
    IN  SelectSeq(ranged, keep)

\* lines 57-78: the body of the filteredData memo
FilteredData(records, criteria, zone) ==
    LET ranged == IF criteria.dateRange.start # "" \/ criteria.dateRange.end # ""
                  THEN filterByDateRange(records, criteria.dateRange.start,
                                         criteria.dateRange.end, zone)
                  ELSE records
        keep(item) ==
            IF criteria.status # {} /\ item["Status"] \notin criteria.status THEN FALSE
            ELSE IF criteria.location # {}
                    /\ item["Primary Location"] \notin criteria.location THEN FALSE
            ELSE IF criteria.membershipName # {}
                    /\ item["Membership Name"] \notin criteria.membershipName THEN FALSE
            ELSE IF criteria.searchQuery # ""
                    /\ ~MatchesSearch(item, criteria.searchQuery) THEN FALSE
            ELSE TRUE
    IN  SelectSeq(ranged, keep)

\* getUniqueValues(data, key), as the set of the values
getUniqueValues(records, key) ==
    {records[k][key] : k \in {j \in 1..Len(records) :
                                 records[j][key] # "" /\ ~IsBlank(records[j][key])}}

(***************************************************************************)
(* Index: the handlers that change the page state, each with the render it *)
(* causes                                                                  *)
(***************************************************************************)
\* what the search box and the date picker can be given
SearchQueries == {"AN", "gol", "act", "m1", "par"}
DateChoices == {"2025-01-20", "2025-10-31"}

\* the records parseCSV resolves to for a file
parseCSV(f) ==
    IF Len(f.data) = 0 THEN <<>>
    ELSE [k \in 1..Len(f.data) |->
             normalizeRow(f.data[k], KeysOf(f.data[1], f.fields))]

\* the render that runs the filteredData memo and keeps the analytics memo
Recompute_FilteredOnly ==
    /\ filteredData' = FilteredData(dataset', filters', tz)
    /\ analytics' = analytics

\* the render after setData or setFilters: both memos run again
Recompute ==
    /\ filteredData' = FilteredData(dataset', filters', tz)
    /\ analytics' = calculateAnalytics(filteredData', clock, tz)

\* FilterPanel is mounted only while a dataset is installed
FilterPanelShown == Len(dataset) > 0

\* toggleFilter(key, value) on one of the offered values
toggleFilter ==
    /\ FilterPanelShown
    /\ \E key \in {"status", "location", "membershipName"} :
          LET field == CASE key = "status" -> "Status"
                         [] key = "location" -> "Primary Location"
                         [] key = "membershipName" -> "Membership Name"
          IN  \E value \in getUniqueValues(dataset, field) :
                  filters' = [filters EXCEPT ![key] =
                                 IF value \in @ THEN @ \ {value} ELSE @ \cup {value}]
    /\ UNCHANGED <<dataset, isLoading, uploads, analyticsVars, csvVars, monthKey, view>>
    /\ Recompute

\* onChange of the search box
SetSearchQuery ==
    /\ FilterPanelShown
    /\ \E q \in SearchQueries \cup {""} :
          /\ q # filters.searchQuery
          /\ filters' = [filters EXCEPT !.searchQuery = q]
    /\ UNCHANGED <<dataset, isLoading, uploads, analyticsVars, csvVars, monthKey, view>>
    /\ Recompute

\* onSelect of the start date calendar
SelectStartDate ==
    /\ FilterPanelShown
    /\ \E d \in DateChoices \cup {""} :
          filters' = [filters EXCEPT !.dateRange.start = d]
    /\ UNCHANGED <<dataset, isLoading, uploads, analyticsVars, csvVars, monthKey, view>>
    /\ Recompute

\* onSelect of the end date calendar
SelectEndDate ==
    /\ FilterPanelShown
    /\ \E d \in DateChoices \cup {""} :
          filters' = [filters EXCEPT !.dateRange.end = d]
    /\ UNCHANGED <<dataset, isLoading, uploads, analyticsVars, csvVars, monthKey, view>>
    /\ Recompute

clearAllFilters ==
    /\ FilterPanelShown
    /\ filters' = NoFilters
    /\ UNCHANGED <<dataset, isLoading, uploads, analyticsVars, csvVars, monthKey, view>>
    /\ Recompute

\* the files dropped on the page: Status and Purchased columns, no row or
\* two rows
UploadRow(status, purchased) == ("Status" :> status) @@ ("Purchased" :> purchased)
UploadedFiles ==
    {[fields |-> <<"Status", "Purchased">>, data |-> d] :
        d \in {<<>>,
                <<UploadRow("Active", "2025-02-13"), UploadRow("Lapsed", "2025-01-05")>>}}

\* FileUpload is mounted only while no dataset is installed
FileUploadShown == Len(dataset) = 0

\* handleFileUpload up to its await: setIsLoading(true) and the parse started
HandleFileUpload ==
    /\ FileUploadShown
    /\ Len(uploads) < MaxUploads
    /\ \E f \in UploadedFiles :
          uploads' = Append(uploads, [file |-> f, state |-> "pending"])
    /\ isLoading' = TRUE
    /\ UNCHANGED <<dataset, filters, filteredData, analytics>>
    /\ UNCHANGED <<analyticsVars, csvVars, monthKey, view>>

\* parseCSV resolves and handleFileUpload runs on: setData, setIsLoading(false)
UploadResolved ==
    \E i \in 1..Len(uploads) :
        /\ uploads[i].state = "pending"
        /\ uploads' = [uploads EXCEPT ![i].state = "resolved"]
        /\ dataset' = parseCSV(uploads[i].file)
        /\ isLoading' = FALSE
        /\ filters' = filters
        /\ Recompute
        /\ UNCHANGED <<analyticsVars, csvVars, monthKey, view>>

\* the failed upload that clears the installed dataset
UploadRejected_ClearsData ==
    \E i \in 1..Len(uploads) :
        /\ uploads[i].state = "pending"
        /\ uploads' = [uploads EXCEPT ![i].state = "rejected"]
        /\ dataset' = <<>>
        /\ isLoading' = FALSE
        /\ filters' = filters
        /\ Recompute
        /\ UNCHANGED <<analyticsVars, csvVars, monthKey, view>>

\* parseCSV rejects and handleFileUpload runs on: catch, setIsLoading(false)
UploadRejected ==
    \E i \in 1..Len(uploads) :
        /\ uploads[i].state = "pending"
        /\ uploads' = [uploads EXCEPT ![i].state = "rejected"]
        /\ isLoading' = FALSE
        /\ UNCHANGED <<dataset, filters, filteredData, analytics>>
        /\ UNCHANGED <<analyticsVars, csvVars, monthKey, view>>

\* getMonthYear on a date field of one record
GetMonthYear ==
    /\ \E k \in 1..Len(data) :
          monthKey' = [of |-> data[k]["Start Date"],
                       key |-> getMonthYear(data[k]["Start Date"], tz)]
    /\ UNCHANGED <<analyticsVars, csvVars, indexVars, view>>

(***************************************************************************)
(* Views over the filtered records: getMemberJourney, MemberJourneyList    *)
(* and DataTable                                                           *)
(***************************************************************************)
\* new Date(0), in hours from the start of 2025 (20089 days after it)
Epoch == 0 - 20089 * HoursPerDay

\* new Date(m["Start Date"]?.replace(",", "") || 0)
StartDateOf(m, zone) ==
    IF m["Start Date"] = "" THEN [valid |-> TRUE, time |-> Epoch]
    ELSE parseDate(m["Start Date"], zone)

\* dateA.getTime() - dateB.getTime(): NaN when either date is invalid
TimeDiff(dateA, dateB) ==
    IF dateA.valid /\ dateB.valid THEN Num(dateA.time - dateB.time) ELSE NaN

Orderings(n) == {p \in [1..n -> 1..n] : \A i, j \in 1..n : p[i] = p[j] => i = j}

\* Array.prototype.sort(comparefn): a stable sort when comparefn orders the
\* elements consistently; when it returns NaN for some pair the order of the
\* result is implementation-defined, any arrangement of the elements.
\* comparefn[i][j] is the comparator's result on the elements s[i], s[j]
SortOutcomes(s, comparefn) ==
    LET n == Len(s)
        consistent == \A i, j \in 1..n : ~comparefn[i][j].nan
        sorted(p) == \A i, j \in 1..n :
                        i < j => \/ comparefn[p[i]][p[j]].val < 0
                                 \/ /\ comparefn[p[i]][p[j]].val = 0
                                    /\ p[i] < p[j]
    IN  {[k \in 1..n |-> s[p[k]]] :
            p \in {q \in Orderings(n) : consistent => sorted(q)}}

\* getMemberJourney(memberId, data): the results the sort may produce
getMemberJourney(memberId, records, zone) ==
    LET journey == SelectSeq(records, LAMBDA m : m["Member ID"] = memberId)
    IN  SortOutcomes(journey,
            [a \in 1..Len(journey) |-> [b \in 1..Len(journey) |->
                TimeDiff(StartDateOf(journey[a], zone), StartDateOf(journey[b], zone))]])

\* MemberJourneyModal rendered for one member of the filtered records
OpenJourney ==
    /\ Len(dataset) > 0
    /\ \E k \in 1..Len(filteredData) :
        \E journeyAsc \in getMemberJourney(filteredData[k]["Member ID"], filteredData, tz) :
            view' = [op |-> "journey", of |-> filteredData[k]["Member ID"],
                     out |-> journeyAsc]
    /\ UNCHANGED <<analyticsVars, csvVars, indexVars, monthKey>>

\* the ids of the records in the order a Map first sees them
FirstIds(records) ==
    LET first == {k \in 1..Len(records) :
                     \A j \in 1..(k - 1) : records[j]["Member ID"] # records[k]["Member ID"]}
        keep[k \in 0..Len(records)] ==
            IF k = 0 THEN <<>>
            ELSE IF k \in first THEN Append(keep[k - 1], records[k]["Member ID"])
            ELSE keep[k - 1]
    IN  keep[Len(records)]

\* one entry of uniqueMembers: `name` is read before memberships.sort runs in
\* place, the other fields after it
MemberEntry(id, memberships, sorted) ==
    [id |-> id,
     name |-> memberships[1]["Member Name"],
     memberships |-> sorted,
     currentStatus |-> sorted[1]["Status"],
     location |-> sorted[1]["Primary Location"],
     totalSpent |-> SumSeq([k \in 1..Len(sorted) |->
                        OrZero(parseFloat(sorted[k]["Amount Paid"]))]),
     totalSessions |-> SumSeq([k \in 1..Len(sorted) |->
                        OrZero(parseFloat(sorted[k]["Total Sessions Completed"]))])]

\* the uniqueMembers memo of MemberJourneyList: the values it may take
uniqueMembers(records, zone) ==
    LET ids == FirstIds(records)
        of(id) == SelectSeq(records, LAMBDA m : m["Member ID"] = id)
        newestFirst(id) ==
            SortOutcomes(of(id),
                [a \in 1..Len(of(id)) |-> [b \in 1..Len(of(id)) |->
                    TimeDiff(StartDateOf(of(id)[b], zone), StartDateOf(of(id)[a], zone))]])
        choices == {c \in [1..Len(ids) -> UNION {newestFirst(ids[k]) : k \in 1..Len(ids)}] :
                       \A k \in 1..Len(ids) : c[k] \in newestFirst(ids[k])}
    IN  {[k \in 1..Len(ids) |-> MemberEntry(ids[k], of(ids[k]), c[k])] : c \in choices}

\* MemberJourneyList rendered on the filtered records
ListJourneys ==
    /\ Len(dataset) > 0
    /\ \E members \in uniqueMembers(filteredData, tz) :
          view' = [op |-> "members", of |-> <<>>, out |-> members]
    /\ UNCHANGED <<analyticsVars, csvVars, indexVars, monthKey>>

\* the order String.prototype.localeCompare gives the sample cell texts
LocaleOrder == <<"", "Active", "Ann", "Bob", "Lapsed">>
LocaleRank(text) == CHOOSE k \in 1..Len(LocaleOrder) : LocaleOrder[k] = text
localeCompare(a, b) ==
    IF LocaleRank(a) < LocaleRank(b) THEN 0 - 1
    ELSE IF LocaleRank(a) > LocaleRank(b) THEN 1 ELSE 0

SortColumns == {"", "Member Name", "Status"}
SortDirections == {"asc", "desc"}
GroupKeys == {"Member Name", "Status", "Primary Location"}

\* DataTable: the lapsedData memo
lapsedData(records) ==
    SelectSeq(records, LAMBDA member :
        toLowerCase(member["Status"]) \in {"lapsed", "churned"})

\* DataTable: the comparator of the sortedData memo
TableCompare(a, b, sort) ==
    LET aNum == parseFloat(a[sort.column])
        bNum == parseFloat(b[sort.column])
        comparison == localeCompare(a[sort.column], b[sort.column])
    IN  IF ~aNum.nan /\ ~bNum.nan
        THEN Num(IF sort.direction = "asc" THEN aNum.val - bNum.val
                 ELSE bNum.val - aNum.val)
        ELSE Num(IF sort.direction = "asc" THEN comparison ELSE 0 - comparison)

\* DataTable: the values the sortedData memo may take
sortedData(rows, sort) ==
    IF sort.column = "" THEN {rows}
    ELSE SortOutcomes(rows, [a \in 1..Len(rows) |-> [b \in 1..Len(rows) |->
                                TableCompare(rows[a], rows[b], sort)]])

\* DataTable: the groupedData memo
groupedData(rows, effectiveGroupBy) ==
    LET keyOf(item) == IF item[effectiveGroupBy] = "" THEN "Unknown"
                       ELSE item[effectiveGroupBy]
    IN  [key \in {keyOf(rows[k]) : k \in 1..Len(rows)} |->
            SelectSeq(rows, LAMBDA item : keyOf(item) = key)]

\* the table that sorts the installed list itself rather than a copy of it
ShowTable_SortsInPlace ==
    /\ Len(dataset) > 0
    /\ \E column \in SortColumns, direction \in SortDirections, groupBy \in GroupKeys :
        LET sort == [column |-> column, direction |-> direction]
        IN  \E rows \in sortedData(dataset, sort) :
                /\ dataset' = rows
                /\ view' = [op |-> "table", of |-> <<column, direction, groupBy>>,
                            out |-> groupedData(lapsedData(rows), groupBy)]
    /\ UNCHANGED <<isLoading, filters, filteredData, analytics, uploads>>
    /\ UNCHANGED <<analyticsVars, csvVars, monthKey>>

\* DataTable rendered on the filtered records with a sort and a grouping
ShowTable ==
    /\ Len(dataset) > 0
    /\ \E column \in SortColumns, direction \in SortDirections, groupBy \in GroupKeys :
        LET sort == [column |-> column, direction |-> direction]
        IN  \E rows \in sortedData(lapsedData(filteredData), sort) :
                view' = [op |-> "table", of |-> <<column, direction, groupBy>>,
                         out |-> groupedData(rows, groupBy)]
    /\ UNCHANGED <<analyticsVars, csvVars, indexVars, monthKey>>

(***************************************************************************)
(* MonthOnMonthPanel: the monthlyData memo                                 *)
(***************************************************************************)
Month0 == [newMembers |-> 0, lapsedMembers |-> 0, activeMembers |-> 0,
           revenue |-> 0, sessions |-> 0, churnRate |-> Zero]

\* first pass: the Start Date text kept for each member.  The kept text is
\* read back with new Date(text) without the comma removed; the texts of
\* the purchase lists used here carry no comma
RECURSIVE FirstPurchasePass(_, _, _)
FirstPurchasePass(records, n, zone) ==
    IF n = 0 THEN EmptyMap
    ELSE LET before == FirstPurchasePass(records, n - 1, zone)
             memberId == records[n]["Member ID"]
             startDate == records[n]["Start Date"]
         IN  IF /\ startDate # "" /\ memberId # ""
                /\ parseDate(startDate, zone).valid
                /\ \/ memberId \notin DOMAIN before
                   \/ parseDate(before[memberId], zone).time
                          > parseDate(startDate, zone).time
             THEN [k \in DOMAIN before \cup {memberId} |->
                      IF k = memberId THEN startDate ELSE before[k]]
             ELSE before

\* second pass, the Start Date branch for one record
StartCount(months, m, date, monthKey0, isFirst) ==
    IF m["Start Date"] # "" /\ date.valid
    THEN [WithKey(months, monthKey0, Month0) EXCEPT ![monthKey0] =
             [@ EXCEPT !.newMembers = IF isFirst THEN @ + 1 ELSE @,
                       !.revenue = @ + OrZero(parseFloat(m["Amount Paid"])),
                       !.sessions = @ + OrZero(parseInt(m["Total Sessions Completed"]))]]
    ELSE months

\* second pass, the Churned Date branch for one record
ChurnCount(months, m, date, monthKey0) ==
    IF m["Status"] = "Lapsed" /\ m["Churned Date"] # "" /\ date.valid
    THEN [WithKey(months, monthKey0, Month0) EXCEPT ![monthKey0] =
             [@ EXCEPT !.lapsedMembers = @ + 1]]
    ELSE months

\* second pass over the first n records
RECURSIVE MonthCountPass(_, _, _, _)
MonthCountPass(records, n, memberFirstPurchase, zone) ==
    IF n = 0 THEN EmptyMap
    ELSE ChurnCount(
             StartCount(MonthCountPass(records, n - 1, memberFirstPurchase, zone),
                        records[n], parseDate(records[n]["Start Date"], zone),
                        getMonthYear(records[n]["Start Date"], zone),
                        /\ records[n]["Member ID"] \in DOMAIN memberFirstPurchase
                        /\ memberFirstPurchase[records[n]["Member ID"]]
                              = records[n]["Start Date"]),
             records[n], parseDate(records[n]["Churned Date"], zone),
             getMonthYear(records[n]["Churned Date"], zone))

\* the months object once churnRate and activeMembers are filled in
MonthTotals(records, zone) ==
    LET months == MonthCountPass(records, Len(records),
                                 FirstPurchasePass(records, Len(records), zone), zone)
    IN  [key \in DOMAIN months |->
            [months[key] EXCEPT
                !.churnRate = IF months[key].newMembers + months[key].lapsedMembers > 0
                              THEN Frac(months[key].lapsedMembers * 100,
                                        months[key].newMembers + months[key].lapsedMembers)
                              ELSE Zero,
                !.activeMembers = months[key].newMembers - months[key].lapsedMembers]]

\* the month labels in the order of new Date(label).getTime()
MonthOrder ==
    <<"Dec 2024", "Jan 2025", "Feb 2025", "Mar 2025", "Apr 2025", "May 2025",
      "Jun 2025", "Jul 2025", "Aug 2025", "Sep 2025", "Oct 2025", "Nov 2025",
      "Dec 2025", "Jan 2026">>

MonthsShown == 12

\* Object.entries(months) sorted by date, the last 12 of them
monthlyData(records, zone) ==
    LET months == MonthTotals(records, zone)
        sorted == SelectSeq(MonthOrder, LAMBDA label : label \in DOMAIN months)
        from == IF Len(sorted) > MonthsShown THEN Len(sorted) - MonthsShown + 1 ELSE 1
    IN  [k \in 1..(Len(sorted) - from + 1) |->
            [month |-> sorted[from + k - 1], totals |-> months[sorted[from + k - 1]]]]

\* MonthOnMonthPanel rendered on the filtered records
ShowMonthOnMonth ==
    /\ Len(dataset) > 0
    /\ view' = [op |-> "months", of |-> <<>>, out |-> monthlyData(filteredData, tz)]
    /\ UNCHANGED <<analyticsVars, csvVars, indexVars, monthKey>>

(***************************************************************************)
(* LocationMonthlyView: the drill-down list of a cell                      *)
(***************************************************************************)
DrillMetrics == {"active", "lapsed", "new", "frozen", "revenue"}

\* getMonthKey(dateStr): toLocaleDateString of an Invalid Date is the text
\* "Invalid Date"
getMonthKey(dateStr, zone) ==
    IF parseDate(dateStr, zone).valid THEN getMonthYear(dateStr, zone)
    ELSE "Invalid Date"

\* the predicate of data.filter in drillDownMembers
DrillKeeps(member, drillDown, startKey, churnKey) ==
    /\ LocationOf(member) = drillDown.location
    /\ CASE drillDown.metric = "active" ->
                /\ member["Start Date"] # "" /\ startKey = drillDown.month
                /\ member["Status"] = "Active"
         [] drillDown.metric = "lapsed" ->
                /\ member["Churned Date"] # "" /\ churnKey = drillDown.month
                /\ member["Status"] = "Lapsed"
         [] drillDown.metric = "new" ->
                member["Start Date"] # "" /\ startKey = drillDown.month
         [] drillDown.metric = "frozen" ->
                /\ member["Start Date"] # "" /\ startKey = drillDown.month
                /\ isFrozenMember(member)
         [] drillDown.metric = "revenue" ->
                member["Start Date"] # "" /\ startKey = drillDown.month
         [] OTHER -> FALSE

\* the drillDownMembers memo for an open drill-down
drillDownMembers(records, drillDown, zone) ==
    SelectSeq(records, LAMBDA member :
        DrillKeeps(member, drillDown, getMonthKey(member["Start Date"], zone),
                   getMonthKey(member["Churned Date"], zone)))

\* a cell with a positive value is clicked: handleCellClick, then the memo
DrillDown ==
    /\ Len(dataset) > 0
    /\ \E location \in DOMAIN analytics.locationBreakdown :
        \E month \in UNION {DOMAIN analytics.locationMonthlyData[l] :
                               l \in DOMAIN analytics.locationMonthlyData} :
          \E metric \in DrillMetrics :
            /\ location \in DOMAIN analytics.locationMonthlyData
            /\ month \in DOMAIN analytics.locationMonthlyData[location]
            /\ analytics.locationMonthlyData[location][month][metric] > 0
            /\ view' = [op |-> "drill",
                        of |-> [location |-> location, month |-> month, metric |-> metric],
                        out |-> drillDownMembers(filteredData,
                                   [location |-> location, month |-> month,
                                    metric |-> metric], tz)]
    /\ UNCHANGED <<analyticsVars, csvVars, indexVars, monthKey>>

(***************************************************************************)
(* Record collections the specifications start from                        *)
(***************************************************************************)
SeqsUpTo(S, n) == UNION {[1..k -> S] : k \in 0..n}

\* status x location x start date x churned date (amounts of the spec's example)
MatrixRecords ==
    {Member(st, loc, "", sd, cd, IF st = "Active" THEN "100" ELSE "50", "5",
            "", "", "", "", "", "") :
        st \in {"Active", "Lapsed", "Expired"}, loc \in {"", "A"},
        sd \in {"", "garbage", "2025-01-05", "2025-01-10"},
        cd \in {"", "   ", "2025-02-01"}}
    \cup
    {Member(st, "A", "2025-03-10", "2025-01-05", cd, "20", "5",
            fr, "", "", "", "", "") :
        st \in {"Active", "Lapsed"}, cd \in {"", "2025-01-20, 10:00:00"},
        fr \in {"0", "2"}}

\* status x start date x churned date, in and out of a shared month
CellRecords ==
    {Member(st, loc, "", sd, cd, "10", "", "", "", "", "", "", "") :
        st \in {"Active", "Lapsed", "Expired"}, loc \in {"", "A"},
        sd \in {"2025-01-05", "2025-04-01"},
        cd \in {"", "2025-01-20, 10:00:00"}}

\* status x location x freeze fields
LocationRecords ==
    {Member(st, loc, "", "", "", "", "", fc, df, "", "", "", "") :
        st \in {"Active", "Lapsed", "Expired"}, loc \in {"", "A", "Unknown"},
        fc \in {"", "2"}, df \in {"0", "10"}}

\* status x amount x sessions
ScalarRecords ==
    {Member(st, "A", "", "", "", am, se, "", "", "", "", "", "") :
        st \in {"Active", "Lapsed", "lapsed"},
        am \in {"100", "abc", "-50"}, se \in {"5", "", "0", "-2"}}

\* purchase date x location x start date
NewRecords ==
    {Member("Active", loc, pd, sd, "", "", "", "", "", "", "", "", "") :
        loc \in {"", "A"}, sd \in {"", "2025-01-05"},
        pd \in {"", "garbage", "2025-01-05", "2025-02-13", "2025-03-10", "2025-05-20"}}

\* status x the four risk fields, and status x purchase date
ClassifierRecords ==
    {Member(st, "A", "", "", "", "", "", "", "", at, ca, sv, ns) :
        st \in {"Active", "Lapsed", "active"},
        at \in {"", "abc", "20", "39", "40"}, ca \in {"", "10", "40", "41"},
        sv \in {"", "21", "22", "30"}, ns \in {"", "0", "2", "3"}}
    \cup
    {Member(st, "A", pd, "", "", "", "", "", "", "", "", "", "") :
        st \in {"Active", "Lapsed"},
        pd \in {"", "   ", "garbage", "2025-01-05", "2025-02-13", "2025-03-10",
                "2025-04-01", "2025-05-20", "2025-10-31, 21:50:13"}}

\* a member record with the fields the filter reads
FilterMember(status, location, membership, name, id, purchase) ==
    Member(status, location, purchase, "", "", "", "", "", "", "", "", "", "")
        @@ ("Membership Name" :> membership) @@ ("Member Name" :> name)
        @@ ("Member ID" :> id)

\* four records in which every two of status, location and membership, and
\* name and id, take all four combinations
FilterRecords ==
    {FilterMember("Active", "Park", "Gold", "Ann", "m1", "2025-02-13"),
     FilterMember("Lapsed", "Park", "Solo", "Bob", "m1", "2025-02-13"),
     FilterMember("Active", "Mall", "Solo", "Ann", "m2", "2025-01-05"),
     FilterMember("Lapsed", "Mall", "Gold", "Bob", "m2", "2025-10-31")}

\* records that differ in the purchase date only
DateRecords ==
    {FilterMember("", "", "", "", "", pd) :
        pd \in {"", "   ", "garbage", "2025-01-05", "2025-01-20",
                "2025-01-20, 10:00:00", "2025-02-13", "2025-10-31",
                "2025-10-31, 21:50:13"}}

\* records that differ in the start date only
MonthRecords ==
    {Member("Active", "A", "", sd, "", "", "", "", "", "", "", "", "") :
        sd \in {"", "garbage", "2025-01-05", "2025-01-20, 10:00:00", "2025-02-01",
                "2025-02-13", "2025-04-01", "2025-10-31", "2025-10-31, 21:50:13"}}

\* status x purchase (old or within 30 days) x start date x churned date,
\* frozen when not churned
DrillRecords ==
    {Member(st, "A", pd, sd, cd, "10", "", IF cd = "" THEN "2" ELSE "0",
            "", "", "", "", "") :
        st \in {"Active", "Lapsed"}, pd \in {"", "2025-03-10"},
        sd \in {"garbage", "2025-01-05"}, cd \in {"", "2025-02-01"}}

\* a member record with the fields the journey and table views read
JourneyMember(id, name, status, start) ==
    Member(status, "", "", start, "", "", "", "", "", "", "", "", "")
        @@ ("Membership Name" :> "") @@ ("Member Name" :> name) @@ ("Member ID" :> id)

\* purchases of two members: start dates missing, unreadable and readable
JourneyRecords ==
    {JourneyMember("m1", "Ann", "Lapsed", sd) :
        sd \in {"", "garbage", "2025-01-05", "2025-03-10"}}
    \cup {JourneyMember("m2", "Bob", st, sd) :
            st \in {"Active", "Lapsed"}, sd \in {"", "2025-01-05"}}

JourneyLen == 3     \* longest list of purchases the views are opened on

\* the file whose parse is an installed list of such records
FileOf(records) == [fields |-> expectedColumns, data |-> records]

\* the dataset the page shows while a second dropped file is still parsing
ViewDataset ==
    <<JourneyMember("m1", "Ann", "Lapsed", "2025-03-10"),
      JourneyMember("m2", "Bob", "Active", "2025-01-05"),
      JourneyMember("m1", "Ann", "Lapsed", "")>>

\* header rows of one or two distinct headers, and the rows Papa.parse builds
\* under them: a row holds the leading fields of its line, a short line
\* leaves the rest out
CellValues == {"", "Active"}
HeaderRows ==
    {<<a>> : a \in DOMAIN TrimTable}
    \cup {f \in (DOMAIN TrimTable) \X (DOMAIN TrimTable) : f[1] # f[2]}
RowsUnder(f) == UNION {[{f[j] : j \in 1..n} -> CellValues] : n \in 1..Len(f)}

InitNoUpload ==
    /\ file = NoFile
    /\ csvHeaders = <<>>
    /\ parsed = Pending

\* the Index page before any upload, and no month key asked for
InitNoPage ==
    /\ dataset = <<>>
    /\ isLoading = FALSE
    /\ filters = NoFilters
    /\ filteredData = <<>>
    /\ analytics = calculateAnalytics(filteredData, clock, tz)
    /\ uploads = <<>>
    /\ monthKey = [of |-> "", key |-> ""]
    /\ view = NoView

InitCommon ==
    /\ clock = Now0
    /\ ticks = 0
    /\ pc = "idle"
    /\ idx = 1
    /\ acc = NoSnapshot
    /\ result = <<>>
    /\ tags = <<>>
    /\ InitNoUpload
    /\ InitNoPage

InitCsv ==
    /\ tz = 0
    /\ data = <<>>
    /\ clock = Now0
    /\ ticks = 0
    /\ pc = "idle"
    /\ idx = 1
    /\ acc = NoSnapshot
    /\ result = <<>>
    /\ tags = <<>>
    /\ \E f \in HeaderRows :
          \E d \in SeqsUpTo(RowsUnder(f), MaxRows) :
              file = [fields |-> f, data |-> d]
    /\ csvHeaders = <<>>
    /\ parsed = Pending
    /\ InitNoPage

\* the page with a dataset installed and no criteria set
InitPage(records) ==
    /\ dataset = records
    /\ isLoading = FALSE
    /\ filters = NoFilters
    /\ filteredData = FilteredData(records, NoFilters, tz)
    /\ analytics = calculateAnalytics(filteredData, clock, tz)
    /\ uploads = <<>>
    /\ monthKey = [of |-> "", key |-> ""]
    /\ view = NoView

InitIdle ==
    /\ data = <<>>
    /\ clock = Now0
    /\ ticks = 0
    /\ pc = "idle"
    /\ idx = 1
    /\ acc = NoSnapshot
    /\ result = <<>>
    /\ tags = <<>>
    /\ InitNoUpload

InitFilter ==
    /\ tz = 0
    /\ InitIdle
    /\ \E records \in SeqsUpTo(FilterRecords, MaxRecords) : InitPage(records)

InitDates ==
    /\ tz \in TzOffsets
    /\ InitIdle
    /\ \E records \in SeqsUpTo(DateRecords, MaxRecords) : InitPage(records)

\* the views opened on a list of purchases
InitJourney ==
    /\ tz = 0
    /\ InitIdle
    /\ \E records \in SeqsUpTo(JourneyRecords, JourneyLen) : InitPage(records)

\* two files were dropped while the page was empty; the first has been parsed
\* and installed, the parse of the second is in flight
InitViews ==
    /\ tz = 0
    /\ InitIdle
    /\ dataset = ViewDataset
    /\ isLoading = FALSE
    /\ filters = NoFilters
    /\ filteredData = FilteredData(dataset, NoFilters, tz)
    /\ analytics = calculateAnalytics(filteredData, clock, tz)
    /\ \E f \in UploadedFiles :
          uploads = <<[file |-> FileOf(ViewDataset), state |-> "resolved"],
                      [file |-> f, state |-> "pending"]>>
    /\ monthKey = [of |-> "", key |-> ""]
    /\ view = NoView

\* the location x month view open on an installed list
InitDrill ==
    /\ tz = 0
    /\ InitIdle
    /\ \E records \in SeqsUpTo(DrillRecords, MaxRecords) : InitPage(records)

InitIndex ==
    /\ tz = 0
    /\ InitIdle
    /\ InitNoPage

InitMonths ==
    /\ tz \in TzOffsets
    /\ data \in SeqsUpTo(MonthRecords, MaxRecords)
    /\ InitCommon

InitMatrix ==
    /\ tz \in TzOffsets
    /\ data \in SeqsUpTo(MatrixRecords, MaxRecords)
    /\ InitCommon

InitCells ==
    /\ tz \in TzOffsets
    /\ data \in SeqsUpTo(CellRecords, MaxRecords)
    /\ InitCommon

InitLocations ==
    /\ tz = 0
    /\ data \in SeqsUpTo(LocationRecords, MaxRecords)
    /\ InitCommon

InitScalars ==
    /\ tz = 0
    /\ data \in SeqsUpTo(ScalarRecords, MaxRecords)
    /\ InitCommon

InitNew ==
    /\ tz = 0
    /\ data \in SeqsUpTo(NewRecords, MaxRecords)
    /\ InitCommon

InitClassifier ==
    /\ tz \in TzOffsets
    /\ data \in [1..1 -> ClassifierRecords]
    /\ InitCommon

\* one call of calculateAnalytics
NextCall ==
    \/ Call
    \/ NewStep
    \/ Scalars
    \/ LocationStep
    \/ MonthlyChurn
    \/ MatrixStep
    \/ ChurnRates

\* one call of calculateAnalytics while the wall clock runs
NextTimed ==
    \/ NextCall
    \/ Tick

\* one call of getMemberTags at some time
NextClassifier ==
    \/ Classify
    \/ Tick

\* one parse of an uploaded file
NextCsv ==
    \/ PapaComplete
    \/ PapaError

\* the criteria of the filter panel changed on an installed dataset
NextFilter ==
    \/ toggleFilter
    \/ SetSearchQuery
    \/ SelectStartDate
    \/ SelectEndDate
    \/ clearAllFilters

\* the date picker used on an installed dataset
NextDates ==
    \/ SelectStartDate
    \/ SelectEndDate

\* the Index page: uploads, criteria changes and the wall clock
NextIndex ==
    \/ HandleFileUpload
    \/ UploadResolved
    \/ UploadRejected
    \/ NextFilter
    \/ Tick

\* getMonthYear asked for the key of a date
NextMonths == GetMonthYear

\* the journey modal, the journey list and the table rendered
NextJourney ==
    \/ OpenJourney
    \/ ListJourneys
    \/ ShowTable
    \/ ShowMonthOnMonth

\* the dashboard in use while a parse is in flight
NextViews ==
    \/ NextJourney
    \/ NextFilter
    \/ UploadResolved
    \/ UploadRejected

\* cells of the location x month view clicked
NextDrill == DrillDown

SpecDrill == InitDrill /\ [][NextDrill]_vars
SpecJourney == InitJourney /\ [][NextJourney]_vars
SpecViews == InitViews /\ [][NextViews]_vars

SpecFilter == InitFilter /\ [][NextFilter]_vars
SpecDates == InitDates /\ [][NextDates]_vars
SpecIndex == InitIndex /\ [][NextIndex]_vars
SpecMonths == InitMonths /\ [][NextMonths]_vars
SpecMatrix == InitMatrix /\ [][NextCall]_vars
SpecCells == InitCells /\ [][NextCall]_vars
SpecLocations == InitLocations /\ [][NextCall]_vars
SpecScalars == InitScalars /\ [][NextCall]_vars
SpecNew == InitNew /\ [][NextTimed]_vars
SpecClassifier == InitClassifier /\ [][NextClassifier]_vars
SpecCsv == InitCsv /\ [][NextCsv]_vars

(***************************************************************************)
(* Vocabulary of the properties                                            *)
(***************************************************************************)
Done == pc = "done"
Snap == result[Len(result)]

IsNumber(x) == x.den > 0
IsZero(x) == x.den > 0 /\ x.num = 0

RECURSIVE SumMap(_)
SumMap(f) ==
    IF DOMAIN f = {} THEN 0
    ELSE LET k == CHOOSE j \in DOMAIN f : TRUE
         IN  f[k] + SumMap([j \in DOMAIN f \ {k} |-> f[j]])

\* the number a numeric field stands for, blank or unparseable read as 0
NumberOr0(s) == IF s \in DOMAIN NumberText THEN NumberText[s] ELSE 0

Indexes == 1..Len(data)
HasDate(s) == parseDate(s, tz).valid
RemoveAt(s, i) == SubSeq(s, 1, i - 1) \o SubSeq(s, i + 1, Len(s))
InSeq(x, s) == \E k \in 1..Len(s) : s[k] = x

\* the cell of a matrix, all zero when the matrix has none
CellAt(matrix, loc, month) ==
    IF loc \in DOMAIN matrix /\ month \in DOMAIN matrix[loc]
    THEN matrix[loc][month] ELSE Cell0

CellsOf(matrix) ==
    UNION {{<<loc, month, matrix[loc][month]>> : month \in DOMAIN matrix[loc]} :
              loc \in DOMAIN matrix}

(***************************************************************************)
(* C1: in the returned snapshot every cell's churnRate is                  *)
(* lapsed / (active + lapsed) x 100 when active + lapsed > 0 and 0 when    *)
(* active + lapsed = 0; it is a defined number between 0 and 100.          *)
(***************************************************************************)
C1_CellChurnRate ==
    Done =>
        \A loc \in DOMAIN Snap.locationMonthlyData :
            \A month \in DOMAIN Snap.locationMonthlyData[loc] :
                LET c == Snap.locationMonthlyData[loc][month]
                    total == c.active + c.lapsed
                IN  /\ IsNumber(c.churnRate)
                    /\ total > 0 => FracEq(c.churnRate, Frac(c.lapsed * 100, total))
                    /\ total = 0 => c.churnRate.num = 0
                    /\ 0 <= c.churnRate.num
                    /\ c.churnRate.num <= 100 * c.churnRate.den

\* a snapshot with a cell holding active and lapsed members and a cell holding neither
C1_Witness ==
    /\ Done
    /\ \E loc \in DOMAIN Snap.locationMonthlyData :
        /\ \E month \in DOMAIN Snap.locationMonthlyData[loc] :
              /\ Snap.locationMonthlyData[loc][month].active > 0
              /\ Snap.locationMonthlyData[loc][month].lapsed > 0
        /\ \E month \in DOMAIN Snap.locationMonthlyData[loc] :
              /\ Snap.locationMonthlyData[loc][month].active = 0
              /\ Snap.locationMonthlyData[loc][month].lapsed = 0

(***************************************************************************)
(* C2: a record of location L whose Start Date parses to month S adds its  *)
(* frozen flag, 1 to `new` if new, and, if Active, 1 to `active` and its   *)
(* amount to `revenue` of cell (L,S); if Lapsed with a Churned Date that   *)
(* parses to month C it adds 1 to `lapsed` and its amount to `revenue` of  *)
(* cell (L,C) and nothing else there.  For the records R1 (A, start        *)
(* 2025-01-05, Active, 100) and R2 (A, start 2025-01-10, Lapsed, churned   *)
(* 2025-02-01, 50): A/Jan 2025 has active = 1 and churnRate = 0, and       *)
(* A/Feb 2025 has lapsed = 1.                                              *)
(***************************************************************************)
StartsIn(k, loc, month) ==
    /\ LocationOf(data[k]) = loc
    /\ HasDate(data[k]["Start Date"])
    /\ getMonthYear(data[k]["Start Date"], tz) = month

ChurnsIn(k, loc, month) ==
    /\ LocationOf(data[k]) = loc
    /\ data[k]["Status"] = "Lapsed"
    /\ HasDate(data[k]["Churned Date"])
    /\ getMonthYear(data[k]["Churned Date"], tz) = month

R1 == Member("Active", "A", "", "2025-01-05", "", "100", "5", "", "", "", "", "", "")
R2 == Member("Lapsed", "A", "", "2025-01-10", "2025-02-01", "50", "5", "", "", "", "", "", "")

\* the contributions, month by month as getMonthYear labels the dates
C2_Contributions ==
    Done =>
        \A loc \in {LocationOf(data[k]) : k \in Indexes} :
            \A month \in ({getMonthYear(data[k]["Start Date"], tz) : k \in Indexes}
                          \cup {getMonthYear(data[k]["Churned Date"], tz) : k \in Indexes})
                         \ {"Unknown"} :
                LET c == CellAt(Snap.locationMonthlyData, loc, month)
                    amount(k) == NumberOr0(data[k]["Amount Paid"])
                IN  /\ c.new = Cardinality({k \in Indexes : StartsIn(k, loc, month)
                                              /\ isNewMember(data[k], clock, tz)})
                    /\ c.frozen = Cardinality({k \in Indexes : StartsIn(k, loc, month)
                                              /\ isFrozenMember(data[k])})
                    /\ c.active = Cardinality({k \in Indexes : StartsIn(k, loc, month)
                                              /\ data[k]["Status"] = "Active"})
                    /\ c.lapsed = Cardinality({k \in Indexes : ChurnsIn(k, loc, month)})
                    /\ c.revenue =
                          SumSeq([k \in Indexes |->
                              (IF StartsIn(k, loc, month) /\ data[k]["Status"] = "Active"
                               THEN amount(k) ELSE 0)
                              + (IF ChurnsIn(k, loc, month) THEN amount(k) ELSE 0)])

\* the spec's example
C2_Example ==
    (Done /\ data = <<R1, R2>>) =>
        /\ CellAt(Snap.locationMonthlyData, "A", "Jan 2025").active = 1
        /\ IsZero(CellAt(Snap.locationMonthlyData, "A", "Jan 2025").churnRate)
        /\ CellAt(Snap.locationMonthlyData, "A", "Feb 2025").lapsed = 1

C2_DualContribution == C2_Contributions /\ C2_Example

(***************************************************************************)
(* C3: a record whose Start Date and Churned Date both fail to parse adds  *)
(* nothing to the matrix: the matrix equals, cell for cell and month key   *)
(* for month key, the matrix computed without the record; the record still *)
(* counts in totalMembers and in locationBreakdown.                        *)
(***************************************************************************)
C3_UndatedRecordLeavesMatrix ==
    Done =>
        \A k \in Indexes :
            (~HasDate(data[k]["Start Date"]) /\ ~HasDate(data[k]["Churned Date"])) =>
                /\ CellsOf(Snap.locationMonthlyData) =
                      CellsOf(ChurnRatePass(MatrixPass(RemoveAt(data, k),
                                                       Len(data) - 1, clock, tz)))
                /\ Snap.totalMembers = Len(data)
                /\ LocationOf(data[k]) \in DOMAIN Snap.locationBreakdown

(***************************************************************************)
(* C4: in the returned snapshot the per-location active, lapsed and frozen *)
(* counts of locationBreakdown add up to activeMembers, lapsedMembers and  *)
(* frozenMembers; records of blank Primary Location are counted under      *)
(* "Unknown".                                                              *)
(***************************************************************************)
C4_BreakdownSums ==
    Done =>
        LET b == Snap.locationBreakdown
            unknown == {k \in Indexes : data[k]["Primary Location"] \in {"", "Unknown"}}
        IN  /\ SumMap([loc \in DOMAIN b |-> b[loc].active]) = Snap.activeMembers
            /\ SumMap([loc \in DOMAIN b |-> b[loc].lapsed]) = Snap.lapsedMembers
            /\ SumMap([loc \in DOMAIN b |-> b[loc].frozen]) = Snap.frozenMembers
            /\ "" \notin DOMAIN b
            /\ unknown # {} =>
                  /\ "Unknown" \in DOMAIN b
                  /\ b["Unknown"].active =
                        Cardinality({k \in unknown : data[k]["Status"] = "Active"})
                  /\ b["Unknown"].lapsed =
                        Cardinality({k \in unknown : data[k]["Status"] = "Lapsed"})
                  /\ b["Unknown"].frozen =
                        Cardinality({k \in unknown : isFrozenMember(data[k])})

\* a snapshot over two locations, one of them a blank one, with an active,
\* a frozen and a neither-active-nor-lapsed record
C4_Witness ==
    /\ Done
    /\ Cardinality(DOMAIN Snap.locationBreakdown) = 2
    /\ \E k \in Indexes : data[k]["Primary Location"] = ""
    /\ \E k \in Indexes : data[k]["Status"] = "Expired"
    /\ Snap.activeMembers = 1
    /\ Snap.frozenMembers >= 1

(***************************************************************************)
(* C5: in one returned snapshot the per-location `new` counts add up to    *)
(* newMembers and the `new` counts of the matrix cells add up to at most   *)
(* newMembers, also when the wall clock advances between the passes.       *)
(***************************************************************************)
C5_NewCountsAgree ==
    Done =>
        LET b == Snap.locationBreakdown
            cells == CellsOf(Snap.locationMonthlyData)
        IN  /\ SumMap([loc \in DOMAIN b |-> b[loc].new]) = Snap.newMembers
            /\ SumMap([c \in cells |-> c[3].new]) <= Snap.newMembers

(***************************************************************************)
(* C6: totalMembers, activeMembers and lapsedMembers count the records,    *)
(* those with Status "Active" and those with Status "Lapsed"; churnRate =  *)
(* lapsedMembers / totalMembers x 100, avgSessionsPerMember =              *)
(* totalSessions / totalMembers, avgRevenuePerSession = totalRevenue /     *)
(* totalSessions, each 0 when its denominator is 0; for the empty          *)
(* collection every scalar is 0.                                           *)
(***************************************************************************)
SessionsOf(records) ==
    SumSeq([k \in 1..Len(records) |-> NumberOr0(records[k]["Total Sessions Completed"])])
RevenueOf(records) ==
    SumSeq([k \in 1..Len(records) |-> NumberOr0(records[k]["Amount Paid"])])

C6_CountsAndRates ==
    /\ Snap.totalMembers = Len(data)
    /\ Snap.activeMembers = Cardinality({k \in Indexes : data[k]["Status"] = "Active"})
    /\ Snap.lapsedMembers = Cardinality({k \in Indexes : data[k]["Status"] = "Lapsed"})
    /\ Snap.totalRevenue = RevenueOf(data)
    /\ IsNumber(Snap.churnRate)
    /\ IsNumber(Snap.avgSessionsPerMember)
    /\ IsNumber(Snap.avgRevenuePerSession)
    /\ Len(data) > 0 =>
          /\ FracEq(Snap.churnRate, Frac(Snap.lapsedMembers * 100, Len(data)))
          /\ FracEq(Snap.avgSessionsPerMember, Frac(SessionsOf(data), Len(data)))
    /\ Len(data) = 0 =>
          /\ IsZero(Snap.churnRate) /\ IsZero(Snap.avgSessionsPerMember)
          /\ IsZero(Snap.avgRevenuePerSession)
          /\ Snap.activeMembers = 0 /\ Snap.lapsedMembers = 0 /\ Snap.newMembers = 0
          /\ Snap.highRiskMembers = 0 /\ Snap.frozenMembers = 0
          /\ Snap.totalRevenue = 0

\* the claim as stated: the quotient whenever totalSessions is not 0
C6_ScalarsAsStated ==
    Done =>
        /\ C6_CountsAndRates
        /\ SessionsOf(data) # 0 =>
              FracEq(Snap.avgRevenuePerSession, Frac(RevenueOf(data), SessionsOf(data)))
        /\ SessionsOf(data) = 0 => IsZero(Snap.avgRevenuePerSession)

\* amended: the quotient when totalSessions > 0, and 0 when totalSessions <= 0
C6_Scalars ==
    Done =>
        /\ C6_CountsAndRates
        /\ SessionsOf(data) > 0 =>
              FracEq(Snap.avgRevenuePerSession, Frac(RevenueOf(data), SessionsOf(data)))
        /\ SessionsOf(data) <= 0 => IsZero(Snap.avgRevenuePerSession)

\* a snapshot of two records, one lapsed, with sessions and revenue
C6_Witness ==
    /\ Done
    /\ Len(data) = 2
    /\ Snap.lapsedMembers = 1
    /\ SessionsOf(data) > 0
    /\ RevenueOf(data) > 0
    /\ Snap.avgRevenuePerSession.num > 0

(***************************************************************************)
(* C7: monthlyChurn[k] is the number of Lapsed records whose Churned Date  *)
(* parses to a valid date in month k; a Lapsed record whose Churned Date   *)
(* is non-empty but does not parse is counted in no bucket.                *)
(***************************************************************************)
C7_MonthlyChurn ==
    Done =>
        \A month \in DOMAIN Snap.monthlyChurn
                     \cup {getMonthYear(data[k]["Churned Date"], tz) : k \in Indexes} :
            (IF month \in DOMAIN Snap.monthlyChurn THEN Snap.monthlyChurn[month] ELSE 0)
              = Cardinality({k \in Indexes :
                    /\ data[k]["Status"] = "Lapsed"
                    /\ HasDate(data[k]["Churned Date"])
                    /\ getMonthYear(data[k]["Churned Date"], tz) = month})

(***************************************************************************)
(* C8: a record is high-risk iff its Status is exactly "Active" and at     *)
(* least 2 of: attendance rate < 40, cancellation rate > 40, days since    *)
(* last visit > 21, no-shows >= 3 hold, blank or unparseable fields read   *)
(* as 0.  So it is not high-risk when Active with four blank fields, and   *)
(* high-risk when Active with 20, 10, 30, 0.                               *)
(***************************************************************************)
RiskFactorsOf(m) ==
    (IF NumberOr0(m["Attendance Rate %"]) < 40 THEN 1 ELSE 0)
    + (IF NumberOr0(m["Cancellation Rate %"]) > 40 THEN 1 ELSE 0)
    + (IF NumberOr0(m["Days Since Last Visit"]) > 21 THEN 1 ELSE 0)
    + (IF NumberOr0(m["No Shows"]) >= 3 THEN 1 ELSE 0)

AllBlankActive == Member("Active", "A", "", "", "", "", "", "", "", "", "", "", "")
RiskyActive == Member("Active", "A", "", "", "", "", "", "", "", "20", "10", "30", "0")

C8_HighRisk ==
    pc = "tagged" =>
        /\ InSeq("high-risk", tags) <=>
              (data[idx]["Status"] = "Active" /\ RiskFactorsOf(data[idx]) >= 2)
        /\ data[idx] = AllBlankActive => ~InSeq("high-risk", tags)
        /\ data[idx] = RiskyActive => InSeq("high-risk", tags)

\* the spec's high-risk example has been classified
C8_Witness ==
    /\ pc = "tagged"
    /\ data[idx] = RiskyActive
    /\ InSeq("high-risk", tags)

(***************************************************************************)
(* C9: a record is new iff its Purchase Date parses and the number of days *)
(* between the current time and the purchase date is <= 30, for purchase   *)
(* dates in the past and in the future alike.                              *)
(***************************************************************************)
DaysBetween(a, b) == (IF a >= b THEN a - b ELSE b - a) \div HoursPerDay

C9_NewWithinThirtyDays ==
    [][(pc = "idle" /\ pc' = "tagged") =>
          (InSeq("new", tags') <=>
              /\ HasDate(data[idx']["Purchase Date"])
              /\ DaysBetween(clock, parseDate(data[idx']["Purchase Date"], tz).time) <= 30)]_vars

(***************************************************************************)
(* C10: for a parsed CSV with at least one data row parseCSV resolves to   *)
(* one record per data row, in row order, and every canonical field of     *)
(* COLUMN_MAPPINGS is defined as a string on every record: the empty       *)
(* string when no header binds to it or the row has no value for the bound *)
(* header.                                                                 *)
(***************************************************************************)
\* the headers of the file's first row that spell an alias of a canonical field
SpellsAliasOf(h, c) ==
    \E a \in 1..Len(COLUMN_MAPPINGS[c]) :
        toLowerCase(trim(h)) = toLowerCase(COLUMN_MAPPINGS[c][a])

C10_OneRecordPerRow ==
    (parsed.state = "resolved" /\ Len(file.data) >= 1) =>
        /\ Len(parsed.value) = Len(file.data)
        /\ \A k \in 1..Len(file.data) :
              \A c \in DOMAIN COLUMN_MAPPINGS :
                  LET binding == {h \in DOMAIN file.data[1] : SpellsAliasOf(h, c)}
                  IN  /\ c \in DOMAIN parsed.value[k]
                      /\ parsed.value[k][c] \in
                            {""} \cup {file.data[k][h] : h \in binding \cap DOMAIN file.data[k]}
                      /\ (binding \cap DOMAIN file.data[k] = {}) => parsed.value[k][c] = ""
                      /\ (Cardinality(binding) = 1 /\ binding \subseteq DOMAIN file.data[k]) =>
                            \A h \in binding : parsed.value[k][c] = file.data[k][h]

\* two rows resolved, the second shorter than the first, with a bound field
\* holding different values in the two records and an unbound field empty
C10_Witness ==
    /\ parsed.state = "resolved"
    /\ Len(file.data) = 2
    /\ Cardinality(DOMAIN file.data[2]) < Cardinality(DOMAIN file.data[1])
    /\ parsed.value[1]["Status"] = "Active"
    /\ parsed.value[2]["Status"] = ""
    /\ parsed.value[1]["Member ID"] = ""

(***************************************************************************)
(* C11: for each canonical field the normalizer binds the first header, in *)
(* the file's header order, whose trimmed lower-cased text equals the      *)
(* lower-cased text of an alias of the field (header order decides, not    *)
(* alias order), and binds the empty string when no header matches; a      *)
(* header " status " binds to "Status".                                    *)
(***************************************************************************)
\* the positions in a header list that spell an alias of a canonical field
Spellings(headers, c) == {j \in 1..Len(headers) : SpellsAliasOf(headers[j], c)}

\* what a record holds under c when the first spelling header is bound
BoundValue(row, headers, c) ==
    IF Spellings(headers, c) = {} THEN ""
    ELSE LET j == CHOOSE i \in Spellings(headers, c) :
                      \A o \in Spellings(headers, c) : i <= o
         IN  IF headers[j] \in DOMAIN row THEN row[headers[j]] ELSE ""

C11_FirstKeyBinds ==
    (parsed.state = "resolved" /\ Len(file.data) >= 1) =>
        \A k \in 1..Len(file.data) :
            \A c \in DOMAIN COLUMN_MAPPINGS :
                parsed.value[k][c] =
                    BoundValue(file.data[k], KeysOf(file.data[1], file.fields), c)

(***************************************************************************)
(* C12: for every row, every source header whose trimmed lower-cased text  *)
(* equals no alias of any canonical field appears in the normalized record *)
(* under its original name with the row's original value, and such a       *)
(* pass-through key never overwrites the value bound to a canonical field. *)
(***************************************************************************)
\* the keys of a row that spell no alias of any canonical field
Unmapped(row) ==
    {h \in DOMAIN row : \A c \in DOMAIN COLUMN_MAPPINGS : ~SpellsAliasOf(h, c)}

InDateRange(item, range) ==
    filterByDateRange(<<item>>, range.start, range.end, tz) = <<item>>

\* the lower-cased query is a substring of the lower-cased field
FieldHolds(item, field, q) == includes(toLowerCase(item[field]), toLowerCase(q))

SearchedFields == {"Member Name", "Member ID", "Primary Location", "Membership Name"}

SatisfiesAll(item) ==
    /\ filters.status # {} => item["Status"] \in filters.status
    /\ filters.location # {} => item["Primary Location"] \in filters.location
    /\ filters.membershipName # {} => item["Membership Name"] \in filters.membershipName
    /\ (filters.dateRange.start # "" \/ filters.dateRange.end # "") =>
          InDateRange(item, filters.dateRange)
    /\ filters.searchQuery # "" =>
          \E field \in SearchedFields : FieldHolds(item, field, filters.searchQuery)

C14_FilteredSubsequence ==
    /\ filteredData = SelectSeq(dataset, SatisfiesAll)
    /\ filters = NoFilters => filteredData = dataset
    /\ filters = [NoFilters EXCEPT !.status = {"Active"}] =>
          filteredData = SelectSeq(dataset, LAMBDA item : item["Status"] = "Active")

\* three dimensions set at once, each dropping a record the other two accept
C14_Witness ==
    /\ Len(dataset) = 2
    /\ filters.status = {"Active"}
    /\ filters.location = {"Mall"}
    /\ filters.searchQuery = "AN"
    /\ filters.dateRange.start = "2025-01-20"
    /\ dataset[1]["Status"] = "Active" /\ dataset[1]["Primary Location"] = "Mall"
    /\ dataset[1]["Member Name"] = "Ann" /\ dataset[1]["Purchase Date"] = "2025-01-05"
    /\ dataset[2]["Status"] = "Active" /\ dataset[2]["Primary Location"] = "Park"
    /\ filteredData = <<>>

(***************************************************************************)
(* C15: with both a start and an end date, filterByDateRange keeps every   *)
(* record whose Purchase Date falls on a calendar day from the start day   *)
(* to the end day inclusive, a purchase on the end day or the start day    *)
(* with a time of day such as "2025-10-31, 21:50:13" included, and drops   *)
(* every record whose parseable purchase day lies outside the range.       *)
(***************************************************************************)
\* the text denotes a date, and the day of the year 2025 it names
Parseable(s) == ~IsBlank(s) /\ DateText(s).form # "invalid"
DayOfText(s) == MonthStart[DateText(s).month] + DateText(s).day

OnDayInRange(item) ==
    /\ DayOfText(filters.dateRange.start) <= DayOfText(item["Purchase Date"])
    /\ DayOfText(item["Purchase Date"]) <= DayOfText(filters.dateRange.end)

C15_InclusiveDays ==
    (filters.dateRange.start # "" /\ filters.dateRange.end # "") =>
        filteredData =
            SelectSeq(dataset, LAMBDA item :
                Parseable(item["Purchase Date"]) => OnDayInRange(item))

(***************************************************************************)
(* C16: for every date range (start only, end only, or both) a record      *)
(* whose Purchase Date is empty or does not parse to a valid date is kept  *)
(* by filterByDateRange.                                                   *)
(***************************************************************************)
Undated(item) == ~Parseable(item["Purchase Date"])

C16_UndatedKept ==
    (filters.dateRange.start # "" \/ filters.dateRange.end # "") =>
        SelectSeq(filteredData, Undated) = SelectSeq(dataset, Undated)

\* a range that drops a dated record and keeps an undated one
C16_Witness ==
    /\ filters.dateRange.start = "2025-10-31"
    /\ filters.dateRange.end = ""
    /\ Len(dataset) = 2
    /\ dataset[1]["Purchase Date"] = "2025-01-05"
    /\ dataset[2]["Purchase Date"] = "garbage"
    /\ filteredData = <<dataset[2]>>

(***************************************************************************)
(* C17: with a non-empty search query q a record passes the search         *)
(* dimension if and only if the lower-cased q is a substring of the        *)
(* lower-cased Member Name, Member ID, Primary Location or Membership Name *)
(* of the record; any one field suffices and no other field is searched.   *)
(***************************************************************************)
C17_SearchFields ==
    filters.searchQuery # "" =>
        filteredData =
            SelectSeq(FilteredData(dataset, [filters EXCEPT !.searchQuery = ""], tz),
                      LAMBDA item : \E field \in SearchedFields :
                          FieldHolds(item, field, filters.searchQuery))

\* an upper-case query that the name of the second record holds in lower
\* case and no searched field of the first record holds
C17_Witness ==
    /\ Len(dataset) = 2
    /\ dataset[1]["Member Name"] = "Bob" /\ dataset[2]["Member Name"] = "Ann"
    /\ filters = [NoFilters EXCEPT !.searchQuery = "AN"]
    /\ filteredData = <<dataset[2]>>

(***************************************************************************)
(* C18: getMonthYear returns the same key for any two date strings that    *)
(* denote days in the same calendar month and year and different keys for  *)
(* days in different months, with or without a ", HH:MM:SS" suffix and     *)
(* whatever the local time-zone offset; "2025-10-31, 21:50:13" and         *)
(* "2025-10-31" both yield "Oct 2025", and "2025-02-01" yields "Feb 2025". *)
(***************************************************************************)
\* the key of the calendar month a date text names
MonthNames ==
    <<"Jan 2025", "Feb 2025", "Mar 2025", "Apr 2025", "May 2025", "Jun 2025",
      "Jul 2025", "Aug 2025", "Sep 2025", "Oct 2025", "Nov 2025", "Dec 2025">>
CalendarMonth(s) == MonthNames[DateText(s).month]

C18_KeyIsCalendarMonth ==
    Parseable(monthKey.of) => monthKey.key = CalendarMonth(monthKey.of)

\* in no zone is a date text with a time of day keyed outside its month
C18_TimedTextsKeyed ==
    (Parseable(monthKey.of) /\ DateText(monthKey.of).form = "datetime") =>
        monthKey.key = CalendarMonth(monthKey.of)

(***************************************************************************)
(* C19: when a parse started by handleFileUpload fails, the installed      *)
(* dataset is what it was before that upload started: no partial record    *)
(* list is installed, the derived filtered set and snapshot are unchanged, *)
(* and the loading flag returns to false.                                  *)
(***************************************************************************)
\* this step starts an upload / ends upload i with the given settlement
Starts == Len(uploads') = Len(uploads) + 1
Settles(i, how) ==
    /\ Len(uploads') = Len(uploads)
    /\ uploads[i].state = "pending"
    /\ uploads'[i].state = how

ClockTimes == {Now0 + k * TickHours : k \in 0..ticks}

C20_DerivedValuesFresh ==
    /\ filteredData = FilteredData(dataset, filters, tz)
    /\ \E t \in ClockTimes : analytics = calculateAnalytics(filteredData, t, tz)

\* criteria set on one dataset, then the dataset replaced by a later parse
C20_Witness ==
    /\ Len(uploads) = 2
    /\ uploads[1].state = "resolved" /\ uploads[2].state = "resolved"
    /\ Len(uploads[1].file.data) = 2 /\ Len(uploads[2].file.data) = 0
    /\ filters.status = {"Lapsed"}
    /\ dataset = <<>>
    /\ filteredData = <<>>
    /\ analytics.totalMembers = 0


(***************************************************************************)
(* C21: calculateAnalytics is a function of its record collection alone:   *)
(* two calls on the same records return equal snapshots, whatever the      *)
(* wall-clock times of the two calls.  On the page the memo calls it again *)
(* each time the criteria are set; a step that leaves the filtered records *)
(* as they were must then leave the snapshot as it was.                    *)
(***************************************************************************)
C21_SameRecordsSameSnapshot ==
    [][filteredData' = filteredData => analytics' = analytics]_vars


(***************************************************************************)
(* C22: once a dataset is installed, only a successful upload changes it:  *)
(* changing the filter criteria, the recomputation of the filtered list    *)
(* and of the analytics, the journey of a member, the journey list and the *)
(* sorted and grouped table leave the installed record sequence as it was, *)
(* in order and in every field.                                            *)
(***************************************************************************)
C22_DatasetFrame ==
    [][dataset' # dataset => \E i \in 1..Len(uploads) : Settles(i, "resolved")]_vars

C22_Witness ==
    /\ dataset = ViewDataset
    /\ view.op = "table"
    /\ view.of = <<"Member Name", "desc", "Status">>
    /\ filters.searchQuery = "AN"
    /\ Len(filteredData) = 2


(***************************************************************************)
(* C23: getMemberJourney(id, data) returns exactly the records of data     *)
(* whose Member ID is id, each once, in non-decreasing order of Start Date *)
(* read as a date, also when some of the member's records have an empty or *)
(* unreadable Start Date (such a record may stand anywhere; the dated      *)
(* records are in order among themselves).                                 *)
(***************************************************************************)
RecordsOf(id) == SelectSeq(filteredData, LAMBDA m : m["Member ID"] = id)

Rearranges(j, s) ==
    /\ Len(j) = Len(s)
    /\ \E p \in Orderings(Len(s)) : j = [k \in 1..Len(s) |-> s[p[k]]]

C23_JourneyOrdered ==
    view.op = "journey" =>
        /\ Rearranges(view.out, RecordsOf(view.of))
        /\ \A a, b \in 1..Len(view.out) :
              (/\ a < b
               /\ Parseable(view.out[a]["Start Date"])
               /\ Parseable(view.out[b]["Start Date"]))
              => parseDate(view.out[a]["Start Date"], tz).time
                    <= parseDate(view.out[b]["Start Date"], tz).time


(***************************************************************************)
(* C24: a record is classified as new, and so counted in newMembers, only  *)
(* if its member has exactly one purchase record in the dataset and that   *)
(* purchase was within the last 30 days.                                   *)
(***************************************************************************)
PurchasesOf(id) == {k \in 1..Len(dataset) : dataset[k]["Member ID"] = id}

SolePurchase(m) == Cardinality(PurchasesOf(m["Member ID"])) = 1

C24_NewOnlyFirstPurchase ==
    analytics.newMembers =
        Cardinality({k \in 1..Len(filteredData) :
                        /\ SolePurchase(filteredData[k])
                        /\ isNewMember(filteredData[k], clock, tz)})


(***************************************************************************)
(* C25: in the month-on-month panel every distinct non-empty Member ID     *)
(* with at least one readable Start Date is counted in newMembers exactly  *)
(* once over all months, in the month of the member's earliest Start Date; *)
(* later purchases of the member, and a second record with the same Start  *)
(* Date, add nothing.                                                      *)
(***************************************************************************)
DatedPurchases(id) ==
    {k \in 1..Len(filteredData) :
        /\ filteredData[k]["Member ID"] = id
        /\ parseDate(filteredData[k]["Start Date"], tz).valid}

DatedIds ==
    {id \in {filteredData[k]["Member ID"] : k \in 1..Len(filteredData)} :
        id # "" /\ DatedPurchases(id) # {}}

FirstMonth(id) ==
    LET first == CHOOSE k \in DatedPurchases(id) :
                    \A j \in DatedPurchases(id) :
                        parseDate(filteredData[k]["Start Date"], tz).time
                            <= parseDate(filteredData[j]["Start Date"], tz).time
    IN  getMonthYear(filteredData[first]["Start Date"], tz)

C25_NewOncePerMember ==
    view.op = "months" =>
        /\ \A k \in 1..Len(view.out) :
              view.out[k].totals.newMembers =
                  Cardinality({id \in DatedIds : FirstMonth(id) = view.out[k].month})
        /\ \A id \in DatedIds :
              \E k \in 1..Len(view.out) : view.out[k].month = FirstMonth(id)


(***************************************************************************)
(* C26: when a second upload is started while the parse of the first is    *)
(* still in flight and both parses have resolved, the installed dataset is *)
(* the one parsed from the upload that was started later, in whichever     *)
(* order the two parses resolved.                                          *)
(***************************************************************************)
C26_LaterUploadWins ==
    (/\ Len(uploads) = 2
     /\ uploads[1].state = "resolved"
     /\ uploads[2].state = "resolved")
    => dataset = parseCSV(uploads[2].file)

(***************************************************************************)
(* C27: isLoading is true whenever a parse started by handleFileUpload has *)
(* neither resolved nor rejected, and false whenever no parse is in        *)
(* flight.                                                                 *)
(***************************************************************************)
InFlight == {i \in 1..Len(uploads) : uploads[i].state = "pending"}

C27_LoadingIffInFlight == isLoading <=> InFlight # {}

\* the half that holds: with no parse in flight the flag is down
C27_IdleNotLoading == InFlight = {} => ~isLoading


(***************************************************************************)
(* C28: normalization loses no column: for every row and every source      *)
(* header h the row has a value for, that value is in the normalized       *)
(* record, as the value of a canonical field h spells an alias of or under *)
(* h's own name, also when two headers of the file spell aliases of the    *)
(* same canonical field.                                                   *)
(***************************************************************************)
Kept(row, record, h) ==
    \/ \E c \in DOMAIN COLUMN_MAPPINGS : SpellsAliasOf(h, c) /\ record[c] = row[h]
    \/ h \in DOMAIN record /\ record[h] = row[h]

C28_NoColumnLost ==
    (parsed.state = "resolved" /\ Len(file.data) >= 1) =>
        \A k \in 1..Len(file.data) :
            \A h \in DOMAIN file.data[k] : Kept(file.data[k], parsed.value[k], h)

\* the same for the files in which no two headers spell the same canonical
\* field and the first line is not short
C28_SingleSpellingKept ==
    (/\ parsed.state = "resolved" /\ Len(file.data) >= 1
     /\ DOMAIN file.data[1] = SeqRange(file.fields)
     /\ \A c \in DOMAIN COLUMN_MAPPINGS : Cardinality(Spellings(file.fields, c)) <= 1) =>
        \A k \in 1..Len(file.data) :
            \A h \in DOMAIN file.data[k] : Kept(file.data[k], parsed.value[k], h)


(***************************************************************************)
(* C29: calculateAnalytics adds each record's Amount Paid to at most one   *)
(* cell of locationMonthlyData: the start-month cell when Status is        *)
(* Active, the churn-month cell when Status is Lapsed, no cell for another *)
(* status or when that date is empty; so for non-negative amounts the      *)
(* revenue summed over all cells never exceeds totalRevenue.               *)
(***************************************************************************)
\* the one cell a record's amount goes to, if any
RevenueCells(k) ==
    IF data[k]["Status"] = "Active" /\ data[k]["Start Date"] # ""
    THEN {<<LocationOf(data[k]), getMonthYear(data[k]["Start Date"], tz)>>}
    ELSE IF data[k]["Status"] = "Lapsed" /\ data[k]["Churned Date"] # ""
    THEN {<<LocationOf(data[k]), getMonthYear(data[k]["Churned Date"], tz)>>}
    ELSE {}

MatrixRevenue == SumMap([c \in CellsOf(Snap.locationMonthlyData) |-> c[3].revenue])

C29_RevenueInOneCell ==
    Done =>
        /\ \A c \in CellsOf(Snap.locationMonthlyData) :
              c[3].revenue =
                  SumSeq([k \in Indexes |->
                      IF <<c[1], c[2]>> \in RevenueCells(k)
                      THEN NumberOr0(data[k]["Amount Paid"]) ELSE 0])
        /\ \A k \in Indexes :
              \A cell \in RevenueCells(k) :
                  \E c \in CellsOf(Snap.locationMonthlyData) : <<c[1], c[2]>> = cell
        /\ (\A k \in Indexes : NumberOr0(data[k]["Amount Paid"]) >= 0)
              => MatrixRevenue <= Snap.totalRevenue

\* a lapsed record with both dates: two cells exist, the amount is in one
C29_Witness ==
    /\ Done
    /\ data = <<R2>>
    /\ CellAt(Snap.locationMonthlyData, "A", getMonthYear("2025-01-10", tz)).revenue = 0
    /\ CellAt(Snap.locationMonthlyData, "A", getMonthYear("2025-02-01", tz)).revenue = 50
    /\ MatrixRevenue = 50
    /\ Snap.totalRevenue = 50


(***************************************************************************)
(* C30: in the location x month view, for each count metric (active,       *)
(* lapsed, new, frozen) and each cell whose value is positive, the         *)
(* drill-down list opened from the cell holds exactly as many records as   *)
(* the cell's value: the records calculateAnalytics counted into that      *)
(* counter.                                                                *)
(***************************************************************************)
CountMetrics == {"active", "lapsed", "new", "frozen"}

\* the filtered records calculateAnalytics counted into a cell's counter
CountedInto(location, month, metric) ==
    LET start(k) == /\ filteredData[k]["Start Date"] # ""
                    /\ getMonthYear(filteredData[k]["Start Date"], tz) = month
        churn(k) == /\ filteredData[k]["Status"] = "Lapsed"
                    /\ filteredData[k]["Churned Date"] # ""
                    /\ getMonthYear(filteredData[k]["Churned Date"], tz) = month
    IN  {k \in 1..Len(filteredData) :
            /\ LocationOf(filteredData[k]) = location
            /\ CASE metric = "active" -> start(k) /\ filteredData[k]["Status"] = "Active"
                 [] metric = "lapsed" -> churn(k)
                 [] metric = "new" -> start(k) /\ isNewMember(filteredData[k], clock, tz)
                 [] metric = "frozen" -> start(k) /\ isFrozenMember(filteredData[k])}

C30_DrillDownMatchesCell ==
    (view.op = "drill" /\ view.of.metric \in CountMetrics) =>
        LET counted == CountedInto(view.of.location, view.of.month, view.of.metric)
        IN  /\ Len(view.out) =
                  analytics.locationMonthlyData[view.of.location][view.of.month][view.of.metric]
            /\ view.out = SelectSeq(filteredData,
                              LAMBDA m : \E k \in counted : filteredData[k] = m)

\* the cells of readable months for the metrics other than new
C30_DatedCellsMatch ==
    (/\ view.op = "drill"
     /\ view.of.metric \in CountMetrics \ {"new"}
     /\ view.of.month # "Unknown") =>
        Len(view.out) =
            analytics.locationMonthlyData[view.of.location][view.of.month][view.of.metric]

====
